---- MODULE Spec2Model ----
(***************************************************************************)
(* Scan orchestration, the hybrid memory/durable scan store, the findings  *)
(* of a scan, the stale scan monitor, the schedule store and the schedule  *)
(* runner of the ZAP web interface backend.                                *)
(*                                                                         *)
(* Time is counted in ticks of 15 minutes: the stale threshold of 30       *)
(* minutes is 2 ticks, the default schedule window of 15 minutes 1 tick,   *)
(* a day 96 ticks.                                                         *)
(*                                                                         *)
(* Every asynchronous handler is cut at its awaits: one action is the code *)
(* that runs from the completion of one awaited call to the issue of the   *)
(* next. A call to durable storage takes effect at the step that issues    *)
(* it; the answer of the scanner is an input of the step that resumes.     *)
(***************************************************************************)
EXTENDS Integers, Sequences, FiniteSets, TLC

(* ------------------------------ bounds -------------------------------- *)
NumScans == 1
MaxTime == 3
MaxRestarts == 1

(* --------------------------- program constants ------------------------ *)
\* staleScanThresholdMs = 1800000 ms = 2 ticks of 15 minutes
StaleThreshold == 2
\* null of a Date field
NullTime == -1

\* the scans started through the API
Uuids == 1..NumScans
\* the scans started by the sweeps of the schedule runner; beside the API of
\* the schedule store the sweeps start fewer
MaxLaunches == 2
MaxSchedLaunches == 1
SweepUuids == (NumScans + 1)..(NumScans + MaxLaunches)
SchedSweepUuids == (NumScans + 1)..(NumScans + MaxSchedLaunches)
AllUuids == Uuids \cup SweepUuids

\* no schedule id
NoId == 0

NoError == "null"
ErrUnreachable == "Unable to reach website. Please verify that the site you are trying to scan is online."
ErrNotInTree == "URL not found in scan tree after spider scan"
ErrInactive == "Scan interrupted: No activity detected for an extended period"

NoJob == "null"
\* scheduleId: null
NoSchedule == NoId

IN_PROGRESS_STATUSES == {"pending", "pinging-target", "spider-scanning", "active-scanning"}
COMPLETED_STATUSES == {"completed", "failed"}

\* values the scanner may report as the status of a probe job
ProbeStatusValues == {-5, 10, 40, 100, 130}

VARIABLES
  cache,        \* scanCache.scanMap: uuid -> Scan
  db,           \* the Scan table of durable storage: uuid -> row
  dbConnected,  \* dbConnection.isConnected
  now,          \* the clock
  used,         \* uuids handed out so far (uuidv4 never repeats)
  pc,           \* position of each scan's processFullScan
  unhandled,    \* scans whose processFullScan promise was rejected and handled by nothing
  mpc,          \* position of checkForStaleScans
  mlist,        \* its activeScans, as listed
  mstale,       \* the scans it has found stale and passed to updateScan
  restarts,     \* process restarts so far
  sched,        \* the Schedule table of durable storage: id -> row
  usedIds,      \* schedule ids handed out so far (uuid() never repeats)
  req,          \* the createSchedule / updateSchedule call in flight
  res,          \* how the last call to the schedule store or to the runner ended
  calls,        \* calls of the API of the schedule store so far
  spc,          \* position of processDueSchedules
  due,          \* its dueSchedules that are still to be processed
  turn,         \* the schedule its loop is at, and the scan started for it
  isProcessing, \* the lock of the schedule runner
  sweeps,       \* calls of processDueSchedules that have not returned
  calc,         \* a call of calculateNextRunTime, followed through its loop
  alerts,       \* the Alert table of durable storage: scanId -> findings
  ga,           \* the call of getAlerts in flight
  seen,         \* what the scanner last answered about the crawl of each scan
  peer,         \* a second createSchedule call, in flight beside req
  svc           \* the schedule runner and the heartbeat monitor: timer, isRunning

scanVars == <<cache, db, dbConnected, used, pc, unhandled, mpc, mlist, mstale, restarts, alerts, seen>>
runnerVars == <<turn, isProcessing, sweeps>>
schedVars == <<sched, usedIds, req, res, calls, spc, due, turn, isProcessing, sweeps>>
extraVars == <<peer, svc>>
vars == <<cache, db, dbConnected, now, used, pc, unhandled,
          mpc, mlist, mstale, restarts, sched, usedIds, req, res, calls, spc, due,
          turn, isProcessing, sweeps, calc, alerts, ga, seen, peer, svc>>

(* ------------------------------ the store ----------------------------- *)

\* { ...scan, ...updates }
Merge(scan, updates) ==
  [f \in DOMAIN scan |-> IF f \in DOMAIN updates THEN updates[f] ELSE scan[f]]

\* scanCache.createScan: the record as created in memory
NewScan(u, t) ==
  [uuid |-> u, startedAt |-> t, completedAt |-> NullTime, status |-> "pending",
   progress |-> 0, spiderScanId |-> NoJob, activeScanId |-> NoJob,
   error |-> NoError, scheduleId |-> NoSchedule, lastCheckedAt |-> t]

\* prisma.scan.create in createScan: the row holds no lastCheckedAt
NewRow(scan) == [scan EXCEPT !.lastCheckedAt = NullTime]

\* scanCache.updateScan
scanCache_updateScan(c, u, updates) ==
  IF u \in DOMAIN c THEN [c EXCEPT ![u] = Merge(c[u], updates)] ELSE c

\* updateScan decides whether the mirrored write stamps lastCheckedAt
updateLastChecked(updates) ==
  ~("status" \in DOMAIN updates /\ updates.status \in {"failed", "completed"})

\* an update with no where clause: every row takes the data
prisma_update_everyRow(d, u, data, ok) ==
  IF ok /\ u \in DOMAIN d THEN [x \in DOMAIN d |-> Merge(d[x], data)] ELSE d

\* prisma.scan.update: fails when the write fails or the row does not exist
prisma_update(d, u, data, ok) ==
  IF ok /\ u \in DOMAIN d THEN [d EXCEPT ![u] = Merge(d[u], data)] ELSE d

\* the durable half of updateScan: skipped when the memory update found no record
updateScan_db(c, d, u, updates, ok, t) ==
  IF dbConnected /\ u \in DOMAIN c
  THEN prisma_update(d, u,
         IF updateLastChecked(updates)
         THEN [f \in DOMAIN updates \cup {"lastCheckedAt"} |->
                 IF f = "lastCheckedAt" THEN t ELSE updates[f]]
         ELSE updates, ok)
  ELSE d

\* updateScan were it to undo the memory update when the mirrored write fails
updateScan_rollback(u, updates, ok) ==
  /\ db' = updateScan_db(cache, db, u, updates, ok, now)
  /\ cache' = IF dbConnected /\ u \in DOMAIN cache /\ ~(ok /\ u \in DOMAIN db)
             THEN cache
             ELSE scanCache_updateScan(cache, u, updates)

\* updateScan were it to apply the update to memory only once durable storage
\* has taken it
updateScan_needsStorage(u, updates, ok) ==
  /\ db' = updateScan_db(cache, db, u, updates, ok, now)
  /\ cache' = IF dbConnected /\ ok /\ u \in DOMAIN db
             THEN scanCache_updateScan(cache, u, updates)
             ELSE cache

\* updateScan(uuid, updates)
updateScan(u, updates, ok) ==
  /\ cache' = scanCache_updateScan(cache, u, updates)
  /\ db' = updateScan_db(cache, db, u, updates, ok, now)

\* getScan(uuid): memory first, durable storage on a miss; {} is undefined
GetScanIn(c, d, connected, u) ==
  IF u \in DOMAIN c THEN {c[u]}
  ELSE IF connected /\ u \in DOMAIN d THEN {d[u]}
  ELSE {}

getScan(u) == GetScanIn(cache, db, dbConnected, u)

\* the rows pushed onto the list when none is checked against it
NotYetListed_all(list, rows) == rows

\* if (!activeScans.some(scan => scan.uuid === dbScan.uuid)) activeScans.push(...)
NotYetListed(list, rows) == {r \in rows : \A s \in list : s.uuid # r.uuid}

\* the list getActiveScans builds from a memory map and a table: every element
\* with the tier it was taken from
ActiveScansIn(c, d, connected) ==
  LET activeFromCache == {c[u] : u \in {x \in DOMAIN c : c[x].status \in IN_PROGRESS_STATUSES}}
      dbScans == IF connected
                 THEN {d[u] : u \in {x \in DOMAIN d : d[x].status \in IN_PROGRESS_STATUSES}}
                 ELSE {}
  IN  {[from |-> "cache", scan |-> r] : r \in activeFromCache}
        \cup {[from |-> "db", scan |-> r] : r \in NotYetListed(activeFromCache, dbScans)}

\* getActiveScans(): in-progress memory records, then the in-progress rows whose
\* uuid is not yet in the list
getActiveScans == {e.scan : e \in ActiveScansIn(cache, db, dbConnected)}

(* --------------------------- initial state ---------------------------- *)
\* the row of no schedule, and no call in flight
NoRow == [startTime |-> NullTime, repeatPattern |-> "none", isActive |-> FALSE,
          lastRunAt |-> NullTime, nextRunAt |-> NullTime]
\* no call of calculateNextRunTime under way
NoCalc == [at |-> "idle", startTime |-> NullTime, repeatPattern |-> "none",
           nextRun |-> NullTime]
\* values the scanner may report as the status of a crawl job
SpiderStatusValues == {40, 100}
\* no answer yet about the crawl of any scan: no status read, the URL not found
NoSeen == [u \in AllUuids |-> [status |-> -1, found |-> FALSE]]
\* the findings the scanner may hold of a probe job
Findings == {"f1", "f2"}
\* the Alert table without a row
NoAlerts == [u \in AllUuids |-> {}]
\* no call of getAlerts under way
NoCall == [at |-> "idle", scanId |-> 0, activeScanId |-> NoJob, queried |-> "no",
           calledScanner |-> FALSE, zapThrew |-> FALSE, zapAlerts |-> {}, result |-> {}]
\* no second call is in flight
NoPeer == [at |-> "idle", data |-> << >>, overlaps |-> FALSE, res |-> "none"]
\* the two services that own an interval timer
Services == {"runner", "monitor"}
\* checkInterval: null
NoTimer == 0
\* a service as constructed: no timer, not running; live: the interval timers
\* of the service the event loop holds; made: the timers setInterval has
\* handed out; starts, immediate: the calls of start() and the immediate
\* checks they made
NoServices == [s \in Services |->
                [checkInterval |-> NoTimer, isRunning |-> FALSE, live |-> {},
                 made |-> 0, starts |-> 0, immediate |-> 0]]
\* the loop of the sweep is at no schedule
NoTurn == [id |-> NoId, stamped |-> FALSE, uuid |-> 0]
NoReq == [op |-> "none", id |-> NoId, data |-> << >>, at |-> "idle", cur |-> NoRow,
          startTime |-> NullTime, nextRunAt |-> NullTime, lastRunAt |-> NullTime,
          overlaps |-> FALSE]

\* the schedule store at start: the table is empty, nothing runs
SchedIdle ==
  /\ sched = << >>
  /\ usedIds = {}
  /\ req = NoReq
  /\ res = "none"
  /\ calls = 0
  /\ spc = "idle"
  /\ due = {}
  /\ turn = NoTurn
  /\ isProcessing = FALSE
  /\ sweeps = 0
  /\ calc = NoCalc
  /\ ga = NoCall
  /\ peer = NoPeer
  /\ svc = NoServices

Init ==
  /\ SchedIdle
  /\ cache = << >>
  /\ db = << >>
  /\ dbConnected \in BOOLEAN
  /\ now = 0
  /\ used = {}
  /\ pc = [u \in AllUuids |-> "none"]
  /\ unhandled = {}
  /\ mpc = "idle"
  /\ mlist = {}
  /\ mstale = {}
  /\ restarts = 0
  /\ alerts = NoAlerts
  /\ seen = NoSeen

\* With durable storage disconnected a sweep of the monitor awaits no I/O: its
\* listing and all its updates run in one turn of the event loop, and no other
\* handler runs in between.
Busy == ~dbConnected /\ mpc = "loop"

AddKey(c, u, r) == [x \in DOMAIN c \cup {u} |-> IF x = u THEN r ELSE c[x]]
RemoveKey(c, u) == [x \in DOMAIN c \ {u} |-> c[x]]

\* the next uuid of a pool: uuidv4() never returns one already handed out
FreshIn(pool, u) == u \in pool \ used /\ \A v \in pool \ used : u <= v
FreshUuid(u) == FreshIn(Uuids, u)

\* createScan were it to keep the record in durable storage only
createScan_durableOnly(u, ok) ==
  /\ cache' = cache
  /\ db' = IF dbConnected /\ ok THEN AddKey(db, u, NewRow(NewScan(u, now))) ELSE db

\* createScan(url): always in memory; in durable storage when connected and the write succeeds
createScan(u, ok) ==
  /\ cache' = AddKey(cache, u, NewScan(u, now))
  /\ db' = IF dbConnected /\ ok THEN AddKey(db, u, NewRow(NewScan(u, now))) ELSE db

\* prisma.scan.update of completeScan resolves (it rejects when told so and
\* when the row does not exist)
completeScan_persisted(u, ok) == dbConnected /\ ok /\ u \in DOMAIN db

\* completeScan(uuid) up to its await: the terminal state is written to the
\* cache, then sent to durable storage
completeScan(u, ok) ==
  IF u \notin DOMAIN cache
  THEN UNCHANGED <<cache, db>>
  ELSE LET final == [completedAt |-> now, status |-> "completed", progress |-> 100]
       IN  /\ cache' = scanCache_updateScan(cache, u, final)
           /\ db' = IF dbConnected THEN prisma_update(db, u, final, ok) ELSE db

\* completeScan(uuid) after its await, the durable write having succeeded: the
\* record is deleted from the cache
completeScan_evict(u) ==
  /\ cache' = RemoveKey(cache, u)
  /\ db' = db

(* ------------------- processFullScan, cut at its awaits ---------------- *)
(* A step that only waits (the crawl has ended, the URL was found) changes  *)
(* nothing another handler can read; it is joined with the step after it.   *)

\* a scanner call threw: processFullScan has no try/catch and startFullScan
\* neither awaits nor catches its promise, so nothing handles the rejection
Reject(u) ==
  /\ pc' = [pc EXCEPT ![u] = "threw"]
  /\ unhandled' = unhandled \cup {u}
  /\ UNCHANGED <<cache, db>>

Frame == UNCHANGED <<dbConnected, now, used, mpc, mlist, mstale, restarts, alerts, seen, schedVars, calc, ga, extraVars>>
FrameButSeen == UNCHANGED <<dbConnected, now, used, mpc, mlist, mstale, restarts, alerts, schedVars, calc, ga, extraVars>>

\* the updates processFullScan passes to updateScan
PingUpdate == [status |-> "pinging-target"]
\* the update of an unreachable target were the crawl started all the same
UnreachableUpdate_crawls == [status |-> "spider-scanning", spiderScanId |-> "spider"]
\* the update of an unreachable target
UnreachableUpdate == [status |-> "failed", error |-> ErrUnreachable]
SpiderUpdate == [status |-> "spider-scanning", spiderScanId |-> "spider"]
NotInTreeUpdate == [status |-> "failed", error |-> ErrNotInTree]
ActiveUpdate == [status |-> "active-scanning", activeScanId |-> "ascan", progress |-> 0]

\* startFullScan: await createScan(url), the uuid being the next of a pool
startFullScan_from(pool, u) ==
  /\ ~Busy
  /\ pc[u] = "none" /\ FreshIn(pool, u)
  /\ \E ok \in BOOLEAN : createScan(u, ok)
  /\ used' = used \cup {u}
  /\ pc' = [pc EXCEPT ![u] = "created"]
  /\ UNCHANGED <<dbConnected, now, mpc, mlist, mstale, restarts, unhandled, alerts, seen, schedVars, calc, ga, extraVars>>

startFullScan(u) == startFullScan_from(Uuids, u)

\* processFullScan: updateScan(pinging-target), then isUrlReachable is issued
processFullScan_ping(u) ==
  /\ ~Busy /\ pc[u] = "created"
  /\ \E ok \in BOOLEAN : updateScan(u, PingUpdate, ok)
  /\ pc' = [pc EXCEPT ![u] = "pinging"]
  /\ Frame /\ UNCHANGED unhandled

\* isUrlReachable answered (it never throws); when reachable, startSpiderScan
\* answered: it threw, or returned the id of the crawl job
processFullScan_spider(u) ==
  /\ ~Busy /\ pc[u] = "pinging"
  /\ \E isReachable \in BOOLEAN, threw \in BOOLEAN, ok \in BOOLEAN :
       IF ~isReachable
       THEN /\ updateScan(u, UnreachableUpdate, ok)
            /\ pc' = [pc EXCEPT ![u] = "done"]
            /\ UNCHANGED unhandled
       ELSE IF threw
       THEN Reject(u)
       ELSE /\ updateScan(u, SpiderUpdate, ok)
            /\ pc' = [pc EXCEPT ![u] = "crawling"]
            /\ UNCHANGED unhandled
  /\ Frame

\* a waitForSpiderToComplete that ends at the first status reported
SpiderComplete_anyStatus(status) == status >= 0

\* the condition that ends waitForSpiderToComplete
SpiderComplete(status) == status >= 100

\* a turn of waitForSpiderToComplete: checkSpiderStatus threw, or reported a
\* status; the loop ends when the status is at least 100
processFullScan_crawl(u) ==
  /\ ~Busy /\ pc[u] = "crawling"
  /\ \E threw \in BOOLEAN, status \in SpiderStatusValues :
       IF threw
       THEN /\ Reject(u)
            /\ UNCHANGED seen
       ELSE /\ seen' = [seen EXCEPT ![u].status = status]
            /\ pc' = [pc EXCEPT ![u] = IF SpiderComplete(status) THEN "treeWait" ELSE "crawling"]
            /\ UNCHANGED <<cache, db, unhandled>>
  /\ FrameButSeen

\* a turn of waitForUrlToExistInScanTree: checkUrlInScanTree (which catches its
\* own errors) said whether the URL is in the tree; found ends the loop and
\* startActiveScan is called, not found after 15 s ends it with the scan failed
processFullScan_tree(u) ==
  /\ ~Busy /\ pc[u] = "treeWait"
  /\ \E found \in BOOLEAN, timedOut \in BOOLEAN, ok \in BOOLEAN :
       IF found
       THEN /\ seen' = [seen EXCEPT ![u].found = TRUE]
            /\ pc' = [pc EXCEPT ![u] = "startProbe"]
            /\ UNCHANGED <<cache, db, unhandled>>
       ELSE IF timedOut
       THEN /\ updateScan(u, NotInTreeUpdate, ok)
            /\ pc' = [pc EXCEPT ![u] = "done"]
            /\ UNCHANGED <<unhandled, seen>>
       ELSE UNCHANGED <<cache, db, pc, unhandled, seen>>
  /\ FrameButSeen

\* startActiveScan answered: it threw, or returned the id of the probe job
processFullScan_active(u) ==
  /\ ~Busy /\ pc[u] = "startProbe"
  /\ \E threw \in BOOLEAN, ok \in BOOLEAN :
       IF threw
       THEN Reject(u)
       ELSE /\ updateScan(u, ActiveUpdate, ok)
            /\ pc' = [pc EXCEPT ![u] = "probing"]
            /\ UNCHANGED unhandled
  /\ Frame

Min(a, b) == IF a <= b THEN a ELSE b

\* the updates a turn of the polling loop passes to updateScan:
\* progress = Math.min(status, 100), isComplete = progress >= 100
PollUpdate(status) ==
  [progress |-> Min(status, 100),
   status |-> IF Min(status, 100) >= 100 THEN "completed" ELSE "active-scanning"]

\* one turn of the polling loop: checkActiveScanStatus answered
processFullScan_poll(u) ==
  /\ ~Busy /\ pc[u] = "probing"
  /\ \E threw \in BOOLEAN, status \in ProbeStatusValues, ok \in BOOLEAN :
       IF threw
       THEN Reject(u)
       ELSE LET isComplete == PollUpdate(status).progress >= 100
            IN  /\ updateScan(u, PollUpdate(status), ok)
                /\ pc' = [pc EXCEPT ![u] = IF isComplete THEN "getAlerts" ELSE "probing"]
                /\ UNCHANGED unhandled
  /\ Frame

\* saveAlerts(scanId, alerts): one prisma.alert.create for every finding, all at
\* once; each needs the row of the scan it refers to, and each may fail alone
saveAlerts(t, u, found, saved) ==
  IF dbConnected /\ u \in DOMAIN db THEN [t EXCEPT ![u] = t[u] \cup saved] ELSE t

\* completeScan is called and runs up to its await
processFullScan_complete(u) ==
  \E ok \in BOOLEAN :
    /\ completeScan(u, ok)
    /\ pc' = [pc EXCEPT ![u] =
                IF u \in DOMAIN cache /\ completeScan_persisted(u, ok)
                THEN "evicting" ELSE "done"]
    /\ UNCHANGED unhandled

FrameButAlerts ==
  UNCHANGED <<dbConnected, now, used, mpc, mlist, mstale, restarts, seen, schedVars, calc, ga, extraVars>>

\* zapService.getAlerts answered: it threw, or returned the findings; findings
\* are passed to saveAlerts, which awaits durable storage when connected; with
\* nothing to await completeScan follows at once
processFullScan_finish(u) ==
  /\ ~Busy /\ pc[u] = "getAlerts"
  /\ \E threw \in BOOLEAN, found \in SUBSET Findings :
       IF threw
       THEN Reject(u) /\ alerts' = alerts
       ELSE IF found # {} /\ dbConnected
       THEN /\ \E saved \in SUBSET found : alerts' = saveAlerts(alerts, u, found, saved)
            /\ pc' = [pc EXCEPT ![u] = "saving"]
            /\ UNCHANGED <<cache, db, unhandled>>
       ELSE /\ processFullScan_complete(u)
            /\ alerts' = alerts
  /\ FrameButAlerts

\* saveAlerts has ended (its failure is caught and logged), then completeScan
processFullScan_saved(u) ==
  /\ ~Busy /\ pc[u] = "saving"
  /\ processFullScan_complete(u)
  /\ Frame

\* the durable write of completeScan has resolved
processFullScan_evict(u) ==
  /\ ~Busy /\ pc[u] = "evicting"
  /\ completeScan_evict(u)
  /\ pc' = [pc EXCEPT ![u] = "done"]
  /\ UNCHANGED unhandled
  /\ Frame

processFullScan(u) ==
  \/ processFullScan_ping(u)
  \/ processFullScan_spider(u)
  \/ processFullScan_crawl(u)
  \/ processFullScan_tree(u)
  \/ processFullScan_active(u)
  \/ processFullScan_poll(u)
  \/ processFullScan_finish(u)
  \/ processFullScan_saved(u)
  \/ processFullScan_evict(u)

(* ------------------------ checkForStaleScans -------------------------- *)

\* scan.lastCheckedAt || scan.startedAt
LastChecked(scan) == IF scan.lastCheckedAt # NullTime THEN scan.lastCheckedAt ELSE scan.startedAt

\* lastCheckedAt < cutoffTime, cutoffTime = now - staleScanThresholdMs
IsStale(lastCheckedAt, n) == lastCheckedAt < n - StaleThreshold

\* StaleUpdate without its error message: what C4 has to tell apart
StaleUpdate_noError(n) == [status |-> "failed", completedAt |-> n]

\* the updates the monitor passes to updateScan
StaleUpdate(n) == [status |-> "failed", error |-> ErrInactive, completedAt |-> n]

\* what the loop reads of a listed scan
Listed(scan) == [uuid |-> scan.uuid, lastCheckedAt |-> LastChecked(scan)]

\* checkForStaleScans up to the answer of getActiveScans
checkForStaleScans_called ==
  /\ mpc = "idle"
  /\ mlist' = {Listed(s) : s \in getActiveScans}
  /\ mpc' = "loop"
  /\ mstale' = {}

\* await getActiveScans()
checkForStaleScans_list ==
  /\ checkForStaleScans_called
  /\ UNCHANGED <<cache, db, dbConnected, now, used, pc, unhandled, restarts, alerts, seen, schedVars, calc, ga, extraVars>>

\* the loop resumes: scans that are not stale are passed over, the next stale
\* one is marked with updateScan (now is read once, after the listing; no tick
\* passes within a sweep)
checkForStaleScans_mark ==
  /\ mpc = "loop"
  /\ LET stale == {s \in mlist : IsStale(s.lastCheckedAt, now)}
     IN  /\ stale # {}
         /\ \E s \in stale, ok \in BOOLEAN :
              /\ updateScan(s.uuid, StaleUpdate(now), ok)
              /\ mlist' = stale \ {s}
              /\ mstale' = mstale \cup {s.uuid}
  /\ UNCHANGED <<dbConnected, now, used, pc, unhandled, mpc, restarts, alerts, seen, schedVars, calc, ga, extraVars>>

\* the loop resumes and no listed scan is left that is stale: the sweep ends
checkForStaleScans_end ==
  /\ mpc = "loop"
  /\ \A s \in mlist : ~IsStale(s.lastCheckedAt, now)
  /\ mpc' = "idle" /\ mlist' = {} /\ mstale' = {}
  /\ UNCHANGED <<cache, db, dbConnected, now, used, pc, unhandled, restarts, alerts, seen, schedVars, calc, ga, extraVars>>

checkForStaleScans ==
  \/ checkForStaleScans_list
  \/ checkForStaleScans_mark
  \/ checkForStaleScans_end

(* ----------------------------- environment ---------------------------- *)

\* A tick of 15 minutes passes. Every single awaited call ends within its
\* timeout (10 s for the reachability probe, 30 s for a scanner call) or is a
\* storage call, so a tick passes only while no sweep of the monitor is under
\* way and every scan is in one of its two unbounded polling loops or at rest.
Tick ==
  /\ mpc = "idle"
  /\ \A u \in AllUuids : pc[u] \notin {"created", "pinging", "getAlerts", "saving", "evicting"}
  /\ now < MaxTime
  /\ now' = now + 1
  /\ UNCHANGED <<cache, db, dbConnected, used, pc, unhandled, mpc, mlist, mstale, restarts, alerts, seen, schedVars, calc, ga, extraVars>>

\* the process is restarted: memory and every running handler are gone, durable
\* storage stays, the connection is initialised anew
Restart ==
  /\ ~Busy
  /\ restarts < MaxRestarts
  /\ restarts' = restarts + 1
  /\ cache' = << >>
  /\ pc' = [u \in AllUuids |-> IF pc[u] = "none" THEN "none" ELSE "dead"]
  /\ unhandled' = {}
  /\ mpc' = "idle" /\ mlist' = {} /\ mstale' = {}
  /\ dbConnected' \in BOOLEAN
  /\ seen' = NoSeen
  /\ UNCHANGED <<db, alerts, now, used, schedVars, calc, ga, extraVars>>

\* scans and the monitor, the schedule store at rest
Next ==
  \/ \E u \in Uuids : startFullScan(u)
  \/ \E u \in Uuids : processFullScan(u)
  \/ checkForStaleScans
  \/ Tick
  \/ Restart

Spec == Init /\ [][Next]_vars

(* ---------------------------- several scans ---------------------------- *)
(* Scans started one after another and orchestrated side by side, with the   *)
(* monitor; the process is not restarted.                                     *)

\* the scans that run side by side
NumPairScans == 2
PairUuids == 1..NumPairScans

\* the answers of the scanner are kept few: no call throws, a crawl is
\* reported complete, a probe at 0 or complete, with no findings
PairAnswers ==
  /\ unhandled' = unhandled
  /\ alerts' = alerts
  /\ \A u \in PairUuids : seen'[u].status # 40
  /\ \A u \in DOMAIN cache' : cache'[u].progress \in {0, 100}

\* the writes to durable storage succeed while it is connected
PairWrites ==
  dbConnected =>
    \A u \in DOMAIN cache' : u \in DOMAIN db' /\ db'[u].status = cache'[u].status

PairNext ==
  \/ \E u \in PairUuids : startFullScan_from(PairUuids, u) /\ PairWrites
  \/ \E u \in PairUuids : processFullScan(u) /\ PairAnswers /\ PairWrites
  \/ checkForStaleScans /\ PairWrites
  \/ Tick

PairSpec == Init /\ [][PairNext]_vars

(* ------------------------------ getAlerts ------------------------------ *)
(* getAlerts(scanId, activeScanId), cut at its awaits, over an Alert table  *)
(* left by earlier scans.                                                   *)

\* the activeScanId the route passes: that of the scan, or undefined
ActiveScanIds == {NoJob, "ascan"}

\* the scanner is asked whether or not there is an activeScanId
getAlerts_fromZap_always(call) == [call EXCEPT !.at = "zap", !.calledScanner = TRUE]

\* if (activeScanId): the scanner is asked; else the call throws
getAlerts_fromZap(call) ==
  IF call.activeScanId # NoJob
  THEN [call EXCEPT !.at = "zap", !.calledScanner = TRUE]
  ELSE [call EXCEPT !.at = "threw"]

\* getAlerts is entered: connected, getAlertsFromDb is awaited; else the
\* scanner is next
getAlerts_enter(scanId, activeScanId) ==
  /\ ga.at = "idle"
  /\ LET call == [NoCall EXCEPT !.scanId = scanId, !.activeScanId = activeScanId]
     IN  ga' = IF dbConnected THEN [call EXCEPT !.at = "db"] ELSE getAlerts_fromZap(call)
  /\ UNCHANGED <<now, scanVars, schedVars, calc, extraVars>>

\* getAlertsFromDb answered: the rows of scanId when the query resolved and
\* found some, null when it found none or threw; a non-empty answer is returned
getAlerts_db ==
  /\ ga.at = "db"
  /\ \E ok \in BOOLEAN :
       LET dbAlerts == IF ok THEN alerts[ga.scanId] ELSE {}
           call == [ga EXCEPT !.queried = IF ok THEN "answered" ELSE "threw"]
       IN  ga' = IF dbAlerts # {}
                 THEN [call EXCEPT !.at = "returned", !.result = dbAlerts]
                 ELSE getAlerts_fromZap(call)
  /\ UNCHANGED <<now, scanVars, schedVars, calc, extraVars>>

\* zapService.getAlerts answered: its findings are returned; it threw: the
\* call throws
getAlerts_zap ==
  /\ ga.at = "zap"
  /\ \E threw \in BOOLEAN, found \in SUBSET Findings :
       ga' = IF threw
             THEN [ga EXCEPT !.at = "threw", !.zapThrew = TRUE]
             ELSE [ga EXCEPT !.at = "returned", !.zapAlerts = found, !.result = found]
  /\ UNCHANGED <<now, scanVars, schedVars, calc, extraVars>>

\* the caller has its answer
getAlerts_done ==
  /\ ga.at \in {"returned", "threw"}
  /\ ga' = NoCall
  /\ UNCHANGED <<now, scanVars, schedVars, calc, extraVars>>

getAlerts ==
  \/ \E scanId \in AllUuids, activeScanId \in ActiveScanIds : getAlerts_enter(scanId, activeScanId)
  \/ getAlerts_db
  \/ getAlerts_zap
  \/ getAlerts_done

\* the row of a scan that ended completed at instant 0
ArchivedRow(u) ==
  [NewRow(NewScan(u, 0)) EXCEPT !.status = "completed", !.progress = 100, !.completedAt = 0,
                                !.activeScanId = "ascan", !.spiderScanId = "spider"]

\* earlier scans have ended and are archived, each with the findings that
\* were saved of it; nothing runs
AlertsInit ==
  /\ SchedIdle
  /\ cache = << >>
  /\ db = [u \in AllUuids |-> ArchivedRow(u)]
  /\ dbConnected \in BOOLEAN
  /\ now = 0
  /\ used = AllUuids
  /\ pc = [u \in AllUuids |-> "dead"]
  /\ unhandled = {}
  /\ mpc = "idle"
  /\ mlist = {}
  /\ mstale = {}
  /\ restarts = 0
  /\ alerts \in [AllUuids -> SUBSET Findings]
  /\ seen = NoSeen

AlertsNext == getAlerts

AlertsSpec == AlertsInit /\ [][AlertsNext]_vars

(* ---------------------- without durable storage ------------------------ *)
(* Scans and the monitor while durable storage takes nothing: it is         *)
(* disconnected, or every write to it fails, from the start to the end of   *)
(* the run (the process is not restarted).                                  *)

DegradedInit == Init

DegradedNext ==
  \/ \E u \in Uuids : startFullScan(u) /\ db' = db
  \/ \E u \in Uuids : processFullScan(u) /\ db' = db
  \/ checkForStaleScans /\ db' = db
  \/ Tick

\* an awaited call of processFullScan ends: the scanner answers within its
\* timeout, and the probe job is reported finished in the end
ScannerAnswers(u) == processFullScan(u) /\ db' = db /\ pc'[u] # pc[u]

\* the loop of the monitor runs on to its end
MonitorRuns == (checkForStaleScans_mark \/ checkForStaleScans_end) /\ db' = db

DegradedSpec ==
  /\ DegradedInit /\ [][DegradedNext]_vars
  /\ \A u \in Uuids : SF_vars(ScannerAnswers(u))
  /\ WF_vars(MonitorRuns)

(* --------------------------- the schedule store ----------------------- *)
(* createSchedule, updateSchedule, deleteSchedule and the sweep            *)
(* processDueSchedules, cut at their awaits. One call of the API is in     *)
(* flight at a time; the sweep, started by checkAndRunDueSchedules under   *)
(* the lock of the runner, runs beside it and starts the scan of every     *)
(* schedule it has stamped. Every awaited call is a call to durable        *)
(* storage and lasts far less than a tick: the clock moves only while      *)
(* nothing is in flight.                                                   *)

\* bounds of the schedule store
NumSchedules == 2
MaxCalls == 3
MaxDays == 1
MaxOffset == 1

\* setDate(getDate() + 1): one day, in ticks
Day == 96
\* 15 * 60 * 1000 ms: the end checkForOverlaps assumes when given none
DefaultWindow == 1

SchedIds == 1..NumSchedules
\* the instants the clock visits, and the start times a request may carry
Instants == (0..MaxOffset) \cup {d * Day : d \in 1..MaxDays}
StartTimes == Instants
RepeatPatterns == {"none", "daily"}

\* ScheduleCreateInput (url and name play no part)
CreateInputs == [startTime : StartTimes, repeatPattern : RepeatPatterns, isActive : BOOLEAN]

\* ScheduleUpdateInput as the route passes it: any part of startTime,
\* repeatPattern, isActive (an empty one changes url or name only)
UpdateInputs ==
  { [f \in F |-> full[f]] :
      full \in CreateInputs, F \in SUBSET {"startTime", "repeatPattern", "isActive"} }

\* the where clause of checkForOverlaps: the active schedules other than
\* excludeId that start in [startTime, end), end in (startTime, end], or
\* enclose [startTime, end]
overlappingSchedules(t, startTime, endTime, excludeId) ==
  LET effectiveEndTime == IF endTime = NullTime THEN startTime + DefaultWindow ELSE endTime
  IN  { x \in DOMAIN t :
          /\ x # excludeId
          /\ t[x].isActive
          /\ \/ (t[x].startTime >= startTime /\ t[x].startTime < effectiveEndTime)
             \/ (t[x].nextRunAt # NullTime
                   /\ t[x].nextRunAt > startTime /\ t[x].nextRunAt <= effectiveEndTime)
             \/ (t[x].startTime <= startTime
                   /\ t[x].nextRunAt # NullTime /\ t[x].nextRunAt >= effectiveEndTime) }

\* checkForOverlaps throws
checkForOverlaps(t, startTime, endTime, excludeId) ==
  overlappingSchedules(t, startTime, endTime, excludeId) # {}

(* The Date arithmetic calculateNextRunTime relies on. An instant is a count  *)
(* of ticks from 2024-01-01T00:00 of the server's time zone, taken to have   *)
(* no daylight saving shifts (UTC, as in the container the backend ships    *)
(* in). Months are numbered from 0 as Date numbers them.                    *)

IsLeap(y) == (y % 4 = 0 /\ y % 100 # 0) \/ y % 400 = 0
DaysInMonth(y, m) ==
  IF m = 1 THEN (IF IsLeap(y) THEN 29 ELSE 28)
  ELSE IF m \in {3, 5, 8, 10} THEN 30 ELSE 31
DaysInYear(y) == IF IsLeap(y) THEN 366 ELSE 365

\* the day on which year y begins
RECURSIVE DayFromYear(_)
DayFromYear(y) == IF y <= 2024 THEN 0 ELSE DayFromYear(y - 1) + DaysInYear(y - 1)

\* the days of year y that precede its month m
RECURSIVE DaysBeforeMonth(_, _)
DaysBeforeMonth(y, m) ==
  IF m = 0 THEN 0 ELSE DaysBeforeMonth(y, m - 1) + DaysInMonth(y, m - 1)

\* the day of (year, month, date): a month past December runs into the next
\* year, a date past the end of the month into the next month, date 0 is the
\* last day of the month before
MakeDay(y, m, dt) ==
  LET ym == y + (m \div 12)
      mn == m % 12
  IN  DayFromYear(ym) + DaysBeforeMonth(ym, mn) + dt - 1

RECURSIVE YearOfDay(_, _)
YearOfDay(d, y) == IF d < DayFromYear(y + 1) THEN y ELSE YearOfDay(d, y + 1)
RECURSIVE MonthOfDay(_, _, _)
MonthOfDay(d, y, m) ==
  IF d < DayFromYear(y) + DaysBeforeMonth(y, m + 1) THEN m ELSE MonthOfDay(d, y, m + 1)

DayOf(t) == t \div Day
TimeWithinDay(t) == t % Day
getFullYear(t) == YearOfDay(DayOf(t), 2024)
getMonth(t) == MonthOfDay(DayOf(t), getFullYear(t), 0)
getDate(t) == DayOf(t) - DayFromYear(getFullYear(t)) - DaysBeforeMonth(getFullYear(t), getMonth(t)) + 1
setDate(t, dt) == MakeDay(getFullYear(t), getMonth(t), dt) * Day + TimeWithinDay(t)
setMonth(t, m) == MakeDay(getFullYear(t), m, getDate(t)) * Day + TimeWithinDay(t)

\* the condition of the three loops: while (nextRun <= now), as a strict
\* comparison would read
LoopAgain_strict(nextRun, n) == nextRun < n

\* the condition of the three loops: while (nextRun <= now)
LoopAgain(nextRun, n) == nextRun <= n

\* the month step without its correction: what is left when the day changed
\* and nothing is done about it
Clamp_none(added, currentDay) == added

\* if (nextRun.getDate() !== currentDay) nextRun.setDate(0)
Clamp(added, currentDay) ==
  IF getDate(added) # currentDay THEN setDate(added, 0) ELSE added

\* the body of the daily loop, of the weekly loop and of the monthly loop
nextDay(nextRun) == setDate(nextRun, getDate(nextRun) + 1)
nextWeek(nextRun) == setDate(nextRun, getDate(nextRun) + 7)
nextMonth(nextRun) == Clamp(setMonth(nextRun, getMonth(nextRun) + 1), getDate(nextRun))

\* one turn of the loop of a repeat pattern
LoopBody(repeatPattern, nextRun) ==
  CASE repeatPattern = "daily" -> nextDay(nextRun)
    [] repeatPattern = "weekly" -> nextWeek(nextRun)
    [] repeatPattern = "monthly" -> nextMonth(nextRun)

\* one step past the start, whatever the clock says
addDays_once(nextRun, n) == nextDay(nextRun)

\* while (nextRun <= now) nextRun.setDate(nextRun.getDate() + 1)
RECURSIVE addDays(_, _)
addDays(nextRun, n) == IF LoopAgain(nextRun, n) THEN addDays(nextDay(nextRun), n) ELSE nextRun

\* while (nextRun <= now) nextRun.setDate(nextRun.getDate() + 7)
RECURSIVE addWeeks(_, _)
addWeeks(nextRun, n) == IF LoopAgain(nextRun, n) THEN addWeeks(nextWeek(nextRun), n) ELSE nextRun

\* while (nextRun <= now) { add a month, step back when the day changed }
RECURSIVE addMonths(_, _)
addMonths(nextRun, n) == IF LoopAgain(nextRun, n) THEN addMonths(nextMonth(nextRun), n) ELSE nextRun

\* calculateNextRunTime(startTime, repeatPattern), read at instant n
calculateNextRunTime(startTime, repeatPattern, n) ==
  CASE repeatPattern = "daily" -> addDays(startTime, n)
    [] repeatPattern = "weekly" -> addWeeks(startTime, n)
    [] repeatPattern = "monthly" -> addMonths(startTime, n)
    [] OTHER -> startTime

\* the where clause without isActive: true
IsDue_inactiveToo(row, n) ==
  \/ (row.lastRunAt = NullTime /\ row.startTime <= n)
  \/ (row.nextRunAt # NullTime /\ row.nextRunAt <= n
        /\ ~(row.repeatPattern = "none" /\ row.lastRunAt # NullTime))

\* the where clause of processDueSchedules
IsDue(row, n) ==
  /\ row.isActive
  /\ \/ (row.lastRunAt = NullTime /\ row.startTime <= n)
     \/ (row.nextRunAt # NullTime /\ row.nextRunAt <= n
           /\ ~(row.repeatPattern = "none" /\ row.lastRunAt # NullTime))

\* createSchedule up to the await of checkForOverlaps
createSchedule_check(data) ==
  /\ dbConnected /\ req.op = "none"
  /\ calls < MaxCalls /\ calls' = calls + 1
  /\ usedIds # SchedIds
  /\ req' = [op |-> "create", id |-> NoId, data |-> data, at |-> "checked", cur |-> NoRow,
             startTime |-> data.startTime, nextRunAt |-> data.startTime,
             lastRunAt |-> NullTime,
             overlaps |-> checkForOverlaps(sched, data.startTime, data.startTime, NoId)]
  /\ UNCHANGED <<sched, usedIds, res, spc, due, now, runnerVars, scanVars, calc, ga, extraVars>>

\* createSchedule from there: the overlap error, or prisma.schedule.create
createSchedule_write ==
  /\ req.op = "create" /\ req.at = "checked"
  /\ IF req.overlaps
     THEN /\ res' = "overlap"
          /\ UNCHANGED <<sched, usedIds>>
     ELSE \E ok \in BOOLEAN, id \in SchedIds \ usedIds :
            /\ \A other \in SchedIds \ usedIds : id <= other
            /\ IF ok
               THEN /\ sched' = AddKey(sched, id,
                                  [startTime |-> req.data.startTime,
                                   repeatPattern |-> req.data.repeatPattern,
                                   isActive |-> req.data.isActive,
                                   lastRunAt |-> NullTime,
                                   nextRunAt |-> req.nextRunAt])
                    /\ usedIds' = usedIds \cup {id}
                    /\ res' = "ok"
               ELSE /\ res' = "failed"
                    /\ UNCHANGED <<sched, usedIds>>
  /\ req' = NoReq
  /\ UNCHANGED <<spc, due, now, calls, runnerVars, scanVars, calc, ga, extraVars>>

\* updateSchedule up to the await of getScheduleById
updateSchedule_read(id, data) ==
  /\ dbConnected /\ req.op = "none"
  /\ calls < MaxCalls /\ calls' = calls + 1
  /\ IF id \in DOMAIN sched
     THEN /\ req' = [NoReq EXCEPT !.op = "update", !.id = id, !.data = data,
                                  !.at = "read", !.cur = sched[id]]
          /\ res' = res
     ELSE /\ req' = NoReq
          /\ res' = "notFound"
  /\ UNCHANGED <<sched, usedIds, spc, due, now, runnerVars, scanVars, calc, ga, extraVars>>

\* prisma.schedule.update of updateSchedule: { ...data, nextRunAt, lastRunAt }
updateSchedule_update(id, data, nextRunAt, lastRunAt, ok) ==
  IF ok /\ id \in DOMAIN sched
  THEN /\ sched' = [sched EXCEPT ![id] =
                      [f \in DOMAIN sched[id] |->
                         IF f = "nextRunAt" THEN nextRunAt
                         ELSE IF f = "lastRunAt" THEN lastRunAt
                         ELSE IF f \in DOMAIN data THEN data[f] ELSE sched[id][f]]]
       /\ res' = "ok"
  ELSE /\ sched' = sched
       /\ res' = "failed"

\* the one-time schedule has run and gets a start time in the future
rearm(repeatPattern, lastRunAt, data, n) ==
  /\ repeatPattern = "none"
  /\ lastRunAt # NullTime
  /\ "startTime" \in DOMAIN data
  /\ data.startTime > n

\* updateSchedule from the answer of getScheduleById: nextRunAt and lastRunAt
\* are worked out from the schedule as read, then checkForOverlaps is awaited
\* when startTime or repeatPattern is given (a recalculated nextRunAt is a new
\* Date, never identical to the one read), and else the update is written
updateSchedule_compute ==
  /\ req.op = "update" /\ req.at = "read"
  /\ LET data == req.data
         recalc == "startTime" \in DOMAIN data \/ "repeatPattern" \in DOMAIN data
         startTime == IF "startTime" \in DOMAIN data THEN data.startTime ELSE req.cur.startTime
         repeatPattern == IF "repeatPattern" \in DOMAIN data THEN data.repeatPattern
                          ELSE req.cur.repeatPattern
         lastRunAt == IF recalc /\ rearm(repeatPattern, req.cur.lastRunAt, data, now)
                      THEN NullTime ELSE req.cur.lastRunAt
         nextRunAt == IF recalc THEN calculateNextRunTime(startTime, repeatPattern, now)
                      ELSE req.cur.nextRunAt
     IN  IF recalc
         THEN /\ req' = [req EXCEPT !.at = "checked", !.startTime = startTime,
                                    !.nextRunAt = nextRunAt, !.lastRunAt = lastRunAt,
                                    !.overlaps = checkForOverlaps(sched, startTime, nextRunAt, req.id)]
              /\ UNCHANGED <<sched, res>>
         ELSE /\ \E ok \in BOOLEAN : updateSchedule_update(req.id, data, nextRunAt, lastRunAt, ok)
              /\ req' = NoReq
  /\ UNCHANGED <<usedIds, spc, due, now, calls, runnerVars, scanVars, calc, ga, extraVars>>

\* updateSchedule from the answer of checkForOverlaps
updateSchedule_write ==
  /\ req.op = "update" /\ req.at = "checked"
  /\ IF req.overlaps
     THEN /\ res' = "overlap"
          /\ sched' = sched
     ELSE \E ok \in BOOLEAN :
            updateSchedule_update(req.id, req.data, req.nextRunAt, req.lastRunAt, ok)
  /\ req' = NoReq
  /\ UNCHANGED <<usedIds, spc, due, now, calls, runnerVars, scanVars, calc, ga, extraVars>>

\* the scans that were linked to a schedule once the schedule is deleted
\* (Scan.schedule: onDelete SetNull)
onDelete_SetNull(d, id) ==
  [u \in DOMAIN d |-> IF d[u].scheduleId = id THEN [d[u] EXCEPT !.scheduleId = NoId] ELSE d[u]]

\* deleteSchedule(id)
deleteSchedule(id) ==
  /\ dbConnected /\ req.op = "none"
  /\ calls < MaxCalls /\ calls' = calls + 1
  /\ \E ok \in BOOLEAN :
       IF ok /\ id \in DOMAIN sched
       THEN /\ sched' = RemoveKey(sched, id)
            /\ db' = onDelete_SetNull(db, id)
            /\ res' = "ok"
       ELSE /\ sched' = sched
            /\ db' = db
            /\ res' = "failed"
  /\ UNCHANGED <<usedIds, req, spc, due, now, runnerVars, calc, ga, extraVars,
                 cache, dbConnected, used, pc, unhandled, mpc, mlist, mstale, restarts, alerts, seen>>

\* what the loop of the sweep reads of a due schedule
DueRow(id) == [id |-> id, startTime |-> sched[id].startTime,
               repeatPattern |-> sched[id].repeatPattern]

\* the runner that takes no heed of its lock
Locked_never == FALSE

\* if (this.isProcessing) return
Locked == isProcessing

\* the turn of the loop goes on to start the scan whatever the write did
Stamped_any(t) == TRUE

\* the write of lastRunAt and nextRunAt resolved: the turn goes on to start
\* the scan; it threw: the catch ends the turn
Stamped(t) == t.stamped

\* what is left to process were a failure to end the loop
AfterCatch_abort(d) == {}

\* the catch sits inside the loop: the schedules not yet processed stay
AfterCatch(d) == d

\* processDueSchedules up to the await of findMany
processDueSchedules_query ==
  /\ spc' = "loop"
  /\ due' = {DueRow(id) : id \in {x \in DOMAIN sched : IsDue(sched[x], now)}}
  /\ turn' = NoTurn

\* checkAndRunDueSchedules, called by the interval timer, by start() or by the
\* route /runner/check: it returns at once while the lock is held; else it
\* takes the lock and processDueSchedules runs up to its first await (without
\* durable storage processDueSchedules returns at once and the lock is
\* released before any other handler runs)
checkAndRunDueSchedules_called(caller) ==
  IF Locked
  THEN /\ res' = "skipped"
       /\ UNCHANGED <<spc, due, turn, isProcessing, sweeps>>
  ELSE IF ~dbConnected
  THEN /\ res' = "swept"
       /\ UNCHANGED <<spc, due, turn, isProcessing, sweeps>>
  ELSE /\ res' = res
       /\ isProcessing' = TRUE
       /\ sweeps' = sweeps + 1
       /\ processDueSchedules_query

checkAndRunDueSchedules(caller) ==
  /\ checkAndRunDueSchedules_called(caller)
  /\ UNCHANGED <<sched, usedIds, req, now, calls, scanVars, calc, ga, extraVars>>

\* one turn of its loop up to the await of prisma.schedule.update: nextRunAt is
\* worked out, lastRunAt and nextRunAt are written
processDueSchedules_run ==
  /\ spc = "loop"
  /\ \E d \in due, ok \in BOOLEAN :
       /\ sched' = IF ok /\ d.id \in DOMAIN sched
                   THEN [sched EXCEPT ![d.id].lastRunAt = now,
                                      ![d.id].nextRunAt =
                                         calculateNextRunTime(d.startTime, d.repeatPattern, now)]
                   ELSE sched
       /\ due' = due \ {d}
       /\ turn' = [id |-> d.id, stamped |-> ok /\ d.id \in DOMAIN sched, uuid |-> 0]
  /\ spc' = "stamping"
  /\ UNCHANGED <<usedIds, req, res, now, calls, isProcessing, sweeps, scanVars, calc, ga, extraVars>>

\* the write has ended. It threw: the catch logs it and the loop goes to the
\* next schedule. It resolved: startFullScan is called and runs up to the
\* await of createScan (oks: how the writes to the Scan table may end; pool:
\* the uuids the scans are given)
processDueSchedules_start(oks, pool) ==
  /\ spc = "stamping"
  /\ IF Stamped(turn)
     THEN \E u \in pool, ok \in oks :
            /\ FreshIn(pool, u)
            /\ createScan(u, ok)
            /\ used' = used \cup {u}
            /\ pc' = [pc EXCEPT ![u] = "created"]
            /\ turn' = [turn EXCEPT !.uuid = u]
            /\ spc' = "starting"
            /\ due' = due
     ELSE /\ turn' = NoTurn
          /\ spc' = "loop"
          /\ due' = AfterCatch(due)
          /\ UNCHANGED <<cache, db, used, pc>>
  /\ UNCHANGED <<sched, usedIds, req, res, now, calls, isProcessing, sweeps,
                 dbConnected, unhandled, mpc, mlist, mstale, restarts, alerts, seen, calc, ga, extraVars>>

\* the link to a schedule written were the sweep to pass no id
LinkUpdate_unlinked(id) == [scheduleId |-> NoId]

\* the update the sweep passes to updateScan once the scan of a schedule is
\* created
LinkUpdate(id) == [scheduleId |-> id]

\* the two durable writes in flight after startFullScan returned: the
\* pinging-target update of processFullScan and the link of the sweep, taking
\* effect in either order; the link is refused when the schedule is gone
\* (foreign key Scan.scheduleId)
LinkWrites(c, d, u, id, ok1, ok2, linkFirst) ==
  LET okLink == ok2 /\ id \in DOMAIN sched
  IN  IF linkFirst
      THEN updateScan_db(c, updateScan_db(c, d, u, LinkUpdate(id), okLink, now),
                         u, PingUpdate, ok1, now)
      ELSE updateScan_db(c, updateScan_db(c, d, u, PingUpdate, ok1, now),
                         u, LinkUpdate(id), okLink, now)

\* createScan has ended: startFullScan calls processFullScan, which runs up to
\* its first await (updateScan with pinging-target), and returns the scan; the
\* sweep links the scan to the schedule with updateScan and awaits it
processDueSchedules_link(oks) ==
  /\ spc = "starting"
  /\ \E ok1 \in oks, ok2 \in oks, linkFirst \in BOOLEAN :
       LET u == turn.uuid
           c1 == scanCache_updateScan(cache, u, PingUpdate)
       IN  /\ cache' = scanCache_updateScan(c1, u, LinkUpdate(turn.id))
           /\ db' = LinkWrites(c1, db, u, turn.id, ok1, ok2, linkFirst)
           /\ pc' = [pc EXCEPT ![u] = "pinging"]
  /\ turn' = NoTurn
  /\ spc' = "loop"
  /\ UNCHANGED <<sched, usedIds, req, res, due, now, calls, isProcessing, sweeps,
                 dbConnected, used, unhandled, mpc, mlist, mstale, restarts, alerts, seen, calc, ga, extraVars>>

\* the loop is over: processDueSchedules returns, the finally block of
\* checkAndRunDueSchedules releases the lock, and the call has ended
processDueSchedules_end ==
  /\ spc = "loop" /\ due = {}
  /\ spc' = "idle"
  /\ isProcessing' = FALSE
  /\ sweeps' = sweeps - 1
  /\ res' = "swept"
  /\ UNCHANGED <<sched, usedIds, req, due, turn, now, calls, scanVars, calc, ga, extraVars>>

processDueSchedules(oks, pool) ==
  \/ processDueSchedules_run
  \/ processDueSchedules_start(oks, pool)
  \/ processDueSchedules_link(oks)
  \/ processDueSchedules_end

\* time passes while nothing is in flight
Advance ==
  /\ req.op = "none" /\ spc = "idle"
  /\ \E t \in Instants : t > now /\ now' = t
  /\ UNCHANGED <<schedVars, scanVars, calc, ga, extraVars>>

\* who calls checkAndRunDueSchedules: the interval timer, start(), the route
\* /runner/check
Callers == {"timer", "startup", "manual"}

\* the API of the schedule store beside the sweeps; the sweeps are far shorter
\* than the interval of the timer, and none is asked for while one runs; the
\* writes of a sweep to the Scan table succeed (they fail under RunnerSpec)
SchedNext ==
  \/ \E data \in CreateInputs : createSchedule_check(data)
  \/ createSchedule_write
  \/ \E id \in usedIds, data \in UpdateInputs : updateSchedule_read(id, data)
  \/ updateSchedule_compute
  \/ updateSchedule_write
  \/ \E id \in usedIds : deleteSchedule(id)
  \/ \E caller \in Callers : ~isProcessing /\ checkAndRunDueSchedules(caller)
  \/ processDueSchedules({TRUE}, SchedSweepUuids)
  \/ Advance

\* the schedule store with durable storage connected (without it every one of
\* its operations throws or returns at once), no scan under way
SchedInit ==
  /\ SchedIdle
  /\ cache = << >>
  /\ db = << >>
  /\ dbConnected = TRUE
  /\ now = 0
  /\ used = {}
  /\ pc = [u \in AllUuids |-> "none"]
  /\ unhandled = {}
  /\ mpc = "idle"
  /\ mlist = {}
  /\ mstale = {}
  /\ restarts = 0
  /\ alerts = NoAlerts
  /\ seen = NoSeen

SchedSpec == SchedInit /\ [][SchedNext]_vars

\* the schedule runner: schedules are created and deleted, and
\* checkAndRunDueSchedules is called at any moment, also while a sweep runs
RunnerNext ==
  \/ \E data \in CreateInputs : createSchedule_check(data)
  \/ createSchedule_write
  \/ \E id \in usedIds : deleteSchedule(id)
  \/ \E caller \in Callers : checkAndRunDueSchedules(caller)
  \/ processDueSchedules(BOOLEAN, SweepUuids)
  \/ Advance

RunnerSpec == SchedInit /\ [][RunnerNext]_vars

(* --------------------- sweeps after the runner was down ----------------- *)
(* One recurring schedule, created at instant 0, and a runner that sweeps    *)
(* after any number of its periods have gone by.                              *)

RecurringPatterns == {"daily", "weekly", "monthly"}
\* the schedule starts on 1 January or on 31 January 2024
OutageStarts == {0, 30 * Day}
\* the instants at which the runner is up: the first day, then after 1, 3 and
\* 8 days, after 31, 33 and 62 days
OutageInstants == {0, 1, Day, 3 * Day, 8 * Day, 31 * Day, 33 * Day, 62 * Day}

\* the row createSchedule wrote at instant 0
CreatedRow(startTime, repeatPattern) ==
  [startTime |-> startTime, repeatPattern |-> repeatPattern, isActive |-> TRUE,
   lastRunAt |-> NullTime, nextRunAt |-> startTime]

\* no sweep runs for a while: the process is down, or between two ticks of
\* the interval timer
Outage ==
  /\ spc = "idle"
  /\ \E t \in OutageInstants : t > now /\ now' = t
  /\ UNCHANGED <<schedVars, scanVars, calc, ga, extraVars>>

OutageNext ==
  \/ \E caller \in Callers : checkAndRunDueSchedules(caller)
  \/ processDueSchedules(BOOLEAN, SweepUuids)
  \/ Outage

OutageInit ==
  /\ \E startTime \in OutageStarts, repeatPattern \in RecurringPatterns :
       sched = AddKey(<< >>, 1, CreatedRow(startTime, repeatPattern))
  /\ usedIds = {1}
  /\ req = NoReq /\ res = "none" /\ calls = 0
  /\ spc = "idle" /\ due = {} /\ turn = NoTurn
  /\ isProcessing = FALSE /\ sweeps = 0
  /\ calc = NoCalc /\ ga = NoCall
  /\ peer = NoPeer /\ svc = NoServices
  /\ cache = << >> /\ db = << >>
  /\ dbConnected = TRUE
  /\ now = 0
  /\ used = {}
  /\ pc = [u \in AllUuids |-> "none"]
  /\ unhandled = {}
  /\ mpc = "idle" /\ mlist = {} /\ mstale = {}
  /\ restarts = 0
  /\ alerts = NoAlerts
  /\ seen = NoSeen

OutageSpec == OutageInit /\ [][OutageNext]_vars

(* ------------------- calculateNextRunTime on its own ------------------- *)
(* The function is followed turn by turn through its loop, for start times *)
(* and instants of the clock drawn from the days on which the lengths of   *)
(* the months differ.                                                      *)

\* the patterns the routes let through
AllRepeatPatterns == {"none", "daily", "weekly", "monthly"}

\* start days: 1, 29, 30 and 31 January and 31 March 2024, 31 December 2024,
\* 31 January 2025
CalcStartDays == {0, 28, 29, 30, 90, 365, 396}
\* days of the clock: from the first start day to April 2025
CalcNowDays == {0, 2, 30, 31, 59, 61, 92, 121, 366, 397, 425, 456}
\* midnight and noon
CalcSlots == {0, 48}
CalcStarts == {d * Day + t : d \in CalcStartDays, t \in CalcSlots}
CalcNows == {d * Day + t : d \in CalcNowDays, t \in CalcSlots}

\* calculateNextRunTime is entered: nextRun = new Date(startTime)
calculateNextRunTime_enter(startTime, repeatPattern) ==
  /\ calc.at = "idle"
  /\ calc' = [at |-> IF repeatPattern \in {"daily", "weekly", "monthly"} THEN "loop" ELSE "returned",
              startTime |-> startTime, repeatPattern |-> repeatPattern, nextRun |-> startTime]
  /\ UNCHANGED <<now, scanVars, schedVars, ga, extraVars>>

\* the condition of its loop is read: one more turn, or return nextRun
calculateNextRunTime_loop ==
  /\ calc.at = "loop"
  /\ calc' = IF LoopAgain(calc.nextRun, now)
             THEN [calc EXCEPT !.nextRun = LoopBody(calc.repeatPattern, calc.nextRun)]
             ELSE [calc EXCEPT !.at = "returned"]
  /\ UNCHANGED <<now, scanVars, schedVars, ga, extraVars>>

CalcNext ==
  \/ \E startTime \in CalcStarts, repeatPattern \in AllRepeatPatterns :
       calculateNextRunTime_enter(startTime, repeatPattern)
  \/ calculateNextRunTime_loop

\* no schedule, no scan; the clock stands at any of the instants
CalcInit ==
  /\ SchedIdle
  /\ cache = << >>
  /\ db = << >>
  /\ dbConnected = TRUE
  /\ now \in CalcNows
  /\ used = {}
  /\ pc = [u \in AllUuids |-> "none"]
  /\ unhandled = {}
  /\ mpc = "idle"
  /\ mlist = {}
  /\ mstale = {}
  /\ restarts = 0
  /\ alerts = NoAlerts
  /\ seen = NoSeen

CalcSpec == CalcInit /\ [][CalcNext]_vars


(* calculateNextRunTime(startTime, repeatPattern, repeatDays): the variant   *)
(* of the schedule service that takes explicit days of the week or of the   *)
(* month. repeatDays is a sequence, in the order the caller gave.            *)

\* the longest list of explicit days a call is given
MaxDaysLen == 2

Range(seq) == {seq[i] : i \in DOMAIN seq}
\* sort((a, b) => a - b)[0]
SetMin(S) == CHOOSE x \in S : \A y \in S : x <= y

\* Date.getDay(): 0 is Sunday; instant 0 falls on a Monday
getDay(t) == (DayOf(t) + 1) % 7

\* a filter that keeps the current day as well
IsAfter_orSame(d, currentDay) == d >= currentDay

\* .filter(d => d > currentDay)
IsAfter(d, currentDay) == d > currentDay

\* case 'weekly' with explicit days
nextExplicitWeekday(startTime, repeatDays) ==
  LET currentDay == getDay(startTime)
      nextDays == {x \in {(IF d < currentDay THEN d + 7 ELSE d) : d \in Range(repeatDays)} :
                     IsAfter(x, currentDay)}
      daysToAdd == IF nextDays # {}
                   THEN SetMin(nextDays) - currentDay
                   ELSE 7 + (repeatDays[1] - currentDay)
  IN  setDate(startTime, getDate(startTime) + daysToAdd)

\* case 'monthly' with explicit days
nextExplicitMonthDay(startTime, repeatDays) ==
  LET currentDay == getDate(startTime)
      nextDays == {d \in Range(repeatDays) : IsAfter(d, currentDay)}
  IN  IF nextDays # {}
      THEN setDate(startTime, SetMin(nextDays))
      ELSE setDate(setMonth(startTime, getMonth(startTime) + 1), repeatDays[1])

calculateNextRunTime_repeatDays(startTime, repeatPattern, repeatDays) ==
  CASE repeatPattern = "none" -> startTime + 1
    [] repeatPattern = "daily" -> setDate(startTime, getDate(startTime) + 1)
    [] repeatPattern = "weekly" ->
         IF Len(repeatDays) = 0
         THEN setDate(startTime, getDate(startTime) + 7)
         ELSE nextExplicitWeekday(startTime, repeatDays)
    [] repeatPattern = "monthly" ->
         IF Len(repeatDays) = 0
         THEN setMonth(startTime, getMonth(startTime) + 1)
         ELSE nextExplicitMonthDay(startTime, repeatDays)
    [] OTHER -> startTime + 1

\* start days: the first week of 2024 (a Monday to a Sunday), 15, 25 and 31
\* January 2024, 15 April 2024
DaysStartDays == (0..6) \cup {14, 24, 30, 105}
DaysStarts == {d * Day + t : d \in DaysStartDays, t \in CalcSlots}
\* the days of the week, and some days of the month
Weekdays == 0..6
MonthDays == {5, 15, 20, 31}
SeqsUpTo(S, n) == UNION {[1..k -> S] : k \in 0..n}
\* the lists of explicit days a repeat pattern is called with
RepeatDaysOf(repeatPattern) ==
  CASE repeatPattern = "weekly" -> SeqsUpTo(Weekdays, MaxDaysLen)
    [] repeatPattern = "monthly" -> SeqsUpTo(MonthDays, MaxDaysLen)
    [] OTHER -> {<< >>}

\* the function is called
calculateNextRunTime_repeatDays_call(startTime, repeatPattern, repeatDays) ==
  /\ calc.at \in {"idle", "returned"}
  /\ calc' = [at |-> "called", startTime |-> startTime, repeatPattern |-> repeatPattern,
              repeatDays |-> repeatDays, nextRun |-> startTime]
  /\ UNCHANGED <<now, scanVars, schedVars, ga, extraVars>>

\* it returns nextRun
calculateNextRunTime_repeatDays_return ==
  /\ calc.at = "called"
  /\ calc' = [calc EXCEPT !.at = "returned",
                          !.nextRun = calculateNextRunTime_repeatDays(
                                        calc.startTime, calc.repeatPattern, calc.repeatDays)]
  /\ UNCHANGED <<now, scanVars, schedVars, ga, extraVars>>

DaysNext ==
  \/ \E startTime \in DaysStarts, repeatPattern \in AllRepeatPatterns :
       \E repeatDays \in RepeatDaysOf(repeatPattern) :
         calculateNextRunTime_repeatDays_call(startTime, repeatPattern, repeatDays)
  \/ calculateNextRunTime_repeatDays_return

DaysInit == CalcInit /\ now = 0

DaysSpec == DaysInit /\ [][DaysNext]_vars


(* ------------------- two createSchedule calls at once ------------------- *)
(* The routes are async handlers: a second request is taken up while the     *)
(* first awaits. peer is a createSchedule call in flight beside req.         *)

\* the second createSchedule up to the await of checkForOverlaps
peer_createSchedule_check(data) ==
  /\ dbConnected /\ peer.at = "idle"
  /\ calls < MaxCalls /\ calls' = calls + 1
  /\ peer' = [at |-> "checked", data |-> data, res |-> peer.res,
              overlaps |-> checkForOverlaps(sched, data.startTime, data.startTime, NoId)]
  /\ UNCHANGED <<sched, usedIds, req, res, spc, due, now, runnerVars, scanVars, calc, ga, svc>>

\* the second createSchedule from there: the overlap error, or
\* prisma.schedule.create
peer_createSchedule_write ==
  /\ peer.at = "checked"
  /\ IF peer.overlaps
     THEN /\ peer' = [NoPeer EXCEPT !.res = "overlap"]
          /\ UNCHANGED <<sched, usedIds>>
     ELSE \E ok \in BOOLEAN, id \in SchedIds \ usedIds :
            /\ \A other \in SchedIds \ usedIds : id <= other
            /\ IF ok
               THEN /\ sched' = AddKey(sched, id,
                                  [startTime |-> peer.data.startTime,
                                   repeatPattern |-> peer.data.repeatPattern,
                                   isActive |-> peer.data.isActive,
                                   lastRunAt |-> NullTime,
                                   nextRunAt |-> peer.data.startTime])
                    /\ usedIds' = usedIds \cup {id}
                    /\ peer' = [NoPeer EXCEPT !.res = "ok"]
               ELSE /\ peer' = [NoPeer EXCEPT !.res = "failed"]
                    /\ UNCHANGED <<sched, usedIds>>
  /\ UNCHANGED <<req, res, calls, spc, due, now, runnerVars, scanVars, calc, ga, svc>>

RaceNext ==
  \/ \E data \in CreateInputs : createSchedule_check(data)
  \/ createSchedule_write
  \/ \E data \in CreateInputs : peer_createSchedule_check(data)
  \/ peer_createSchedule_write

RaceSpec == SchedInit /\ [][RaceNext]_vars

(* ------------------- start() and stop() of the services ----------------- *)
(* start() and stop() await nothing: each is one step. The immediate check   *)
(* of start() and the check of a timer run up to their first await.          *)

\* calls of start() of each service
MaxStarts == 3

\* a start() that takes no heed of isRunning
AlreadyRunning_never(s) == FALSE

\* if (this.isRunning) return
AlreadyRunning(s) == svc[s].isRunning

\* stop(): the timer, when there is one, is cleared
Stopped(v) ==
  IF v.checkInterval # NoTimer
  THEN [v EXCEPT !.live = v.live \ {v.checkInterval}, !.checkInterval = NoTimer,
                 !.isRunning = FALSE]
  ELSE v

\* this.stop(); this.checkInterval = setInterval(...); this.isRunning = true
Started(v) ==
  LET cleared == Stopped(v)
      timer == v.made + 1
  IN  [cleared EXCEPT !.checkInterval = timer, !.live = cleared.live \cup {timer},
                      !.made = timer, !.isRunning = TRUE]

\* what a service does at each tick of its timer and at once in start()
check(s) ==
  IF s = "runner"
  THEN /\ checkAndRunDueSchedules_called(IF svc'[s].starts > svc[s].starts THEN "startup" ELSE "timer")
       /\ UNCHANGED <<mpc, mlist, mstale>>
  ELSE /\ checkForStaleScans_called
       /\ UNCHANGED <<res, spc, due, turn, isProcessing, sweeps>>

\* what start(), stop() and a tick of a timer leave alone
TimerFrame ==
  UNCHANGED <<sched, usedIds, req, calls, now, calc, ga, peer,
              cache, db, dbConnected, used, pc, unhandled, restarts, alerts, seen>>

\* start() of a service
start(s) ==
  /\ svc[s].starts < MaxStarts
  /\ IF AlreadyRunning(s)
     THEN /\ svc' = [svc EXCEPT ![s].starts = @ + 1]
          /\ UNCHANGED <<mpc, mlist, mstale, res, spc, due, turn, isProcessing, sweeps>>
     ELSE /\ svc' = [svc EXCEPT ![s] = [Started(svc[s]) EXCEPT !.starts = @ + 1,
                                                               !.immediate = @ + 1]]
          /\ check(s)
  /\ TimerFrame

\* stop() of a service
stop(s) ==
  /\ svc' = [svc EXCEPT ![s] = Stopped(svc[s])]
  /\ UNCHANGED <<mpc, mlist, mstale, res, spc, due, turn, isProcessing, sweeps>>
  /\ TimerFrame

\* a live timer of a service fires
timerFires(s) ==
  /\ svc[s].live # {}
  /\ svc' = svc
  /\ check(s)
  /\ TimerFrame

TimerNext ==
  \/ \E s \in Services : start(s)
  \/ \E s \in Services : stop(s)
  \/ \E s \in Services : timerFires(s)
  \/ processDueSchedules_end
  \/ checkForStaleScans_end

TimerSpec == SchedInit /\ [][TimerNext]_vars


(* ------------------------------- claims ------------------------------- *)

AllRecords == {cache[u] : u \in DOMAIN cache} \cup {db[u] : u \in DOMAIN db}

\* C1 (as claimed): when a scanner call made during processFullScan throws, the
\* scan's record ends failed with a non-null error and no rejection escapes
\* startFullScan or processFullScan.
C1_Claim ==
  \A u \in Uuids :
    pc[u] = "threw" =>
      /\ u \notin unhandled
      /\ \E r \in getScan(u) : r.status = "failed" /\ r.error # NoError

\* C2 (as claimed): once a record's status is failed, no later step changes its
\* status, in memory and in durable storage alike.
C2_Claim ==
  [][ /\ \A u \in DOMAIN cache \cap DOMAIN cache' :
           cache[u].status = "failed" => cache'[u].status = "failed"
      /\ \A u \in DOMAIN db \cap DOMAIN db' :
           db[u].status = "failed" => db'[u].status = "failed" ]_vars

\* C3 (as claimed): every record whose status is failed has completedAt set.
C3_Claim ==
  \A r \in AllRecords : r.status = "failed" => r.completedAt # NullTime

\* C4: every scan record whose status is failed, in memory or in durable
\* storage, has a non-null error.
C4_FailedHasError ==
  \A r \in AllRecords : r.status = "failed" => r.error # NoError

\* C4 witness: the monitor has marked a scan failed, in memory and in durable
\* storage
C4_Witness ==
  \E u \in DOMAIN cache \cap DOMAIN db :
    /\ cache[u].status = "failed" /\ cache[u].error = ErrInactive
    /\ db[u].status = "failed" /\ db[u].error = ErrInactive

\* C5 (as claimed): when a sweep of checkForStaleScans ends, every scan it found
\* non-terminal and stale is recorded as failed with the inactivity error and
\* completedAt set, in the tier getScan reads from.
C5_Claim ==
  [][ (mpc = "loop" /\ mpc' = "idle" /\ restarts' = restarts) =>
        \A u \in mstale :
          \E r \in GetScanIn(cache', db', dbConnected', u) :
            r.status = "failed" /\ r.error = ErrInactive /\ r.completedAt # NullTime ]_vars

\* C6 (as claimed): a write of the monitor never changes a record that is
\* completed or failed at the moment of the write.
C6_Claim ==
  [][ (mpc = "loop" /\ mstale' # mstale /\ restarts' = restarts) =>
        /\ \A u \in DOMAIN cache :
             cache[u].status \in COMPLETED_STATUSES => cache'[u] = cache[u]
        /\ \A u \in DOMAIN db :
             db[u].status \in COMPLETED_STATUSES => db'[u] = db[u] ]_vars

\* C7 (as claimed): completeScan evicts a record only after the durable write of
\* the terminal state succeeded, hence a scan this process created that is
\* absent from memory has a durable row with status completed, progress 100 and
\* completedAt set.
C7_Claim ==
  \A u \in Uuids :
    (pc[u] \notin {"none", "dead"} /\ u \notin DOMAIN cache) =>
      /\ u \in DOMAIN db
      /\ db[u].status = "completed" /\ db[u].progress = 100
      /\ db[u].completedAt # NullTime

\* the window of a stored schedule: [startTime, nextRunAt], or 15 minutes from
\* startTime when nextRunAt is null
Window(row) ==
  [lo |-> row.startTime,
   hi |-> IF row.nextRunAt = NullTime THEN row.startTime + DefaultWindow ELSE row.nextRunAt]

\* the window of the request in flight, once worked out
RequestWindow(r) == [lo |-> r.startTime, hi |-> r.nextRunAt]

\* two windows share more than an endpoint
Intersect(w, v) == w.lo < v.hi /\ v.lo < w.hi

\* two windows are apart or touch: one ends no later than the other starts
Apart(w, v) == w.hi <= v.lo \/ v.hi <= w.lo

\* two windows are one and the same instant
SameInstant(w, v) == w.lo = w.hi /\ v.lo = v.hi /\ w.lo = v.lo

\* the active schedules other than id
OthersActive(id) == {x \in DOMAIN sched : x # id /\ sched[x].isActive}

\* C8 (as claimed): a sweep never selects a one-shot schedule whose lastRunAt
\* is set, and the lastRunAt of a one-shot schedule, once set, is cleared only
\* by an update that sets startTime to an instant in the future.
C8_Claim ==
  [][ /\ (spc = "idle" /\ spc' = "loop") =>
           \A d \in due' :
             ~(sched[d.id].repeatPattern = "none" /\ sched[d.id].lastRunAt # NullTime)
      /\ \A id \in DOMAIN sched \cap DOMAIN sched' :
           ( /\ sched[id].repeatPattern = "none" /\ sched'[id].repeatPattern = "none"
             /\ sched[id].lastRunAt # NullTime /\ sched'[id].lastRunAt = NullTime )
           => ( /\ req.op = "update" /\ req.id = id
                /\ "startTime" \in DOMAIN req.data
                /\ req.data.startTime > now ) ]_vars

\* C9 (as claimed): createSchedule and updateSchedule reject every request
\* whose window intersects the window of another active schedule: the overlap
\* check of a request finds every such schedule, and no update that activates
\* a schedule is written while its window intersects another active one.
C9_Claim ==
  [][ /\ (req.at # "checked" /\ req'.at = "checked") =>
           ( (\E x \in OthersActive(req'.id) :
                 Intersect(RequestWindow(req'), Window(sched[x])))
             => req'.overlaps )
      /\ ( /\ req.op = "update" /\ req.at = "read" /\ req'.op = "none"
           /\ res' = "ok"
           /\ ~req.cur.isActive /\ sched'[req.id].isActive )
         => ~\E x \in OthersActive(req.id) :
                Intersect(Window(sched'[req.id]), Window(sched[x])) ]_vars

\* C10 (as claimed): createSchedule and updateSchedule accept a request whose
\* window is apart from or only touches the window of every other active
\* schedule, also when one of the two windows has zero length (two windows that
\* are one and the same instant are left aside: they coincide).
C10_Claim ==
  [][ (req.at # "checked" /\ req'.at = "checked") =>
        ( (\A x \in OthersActive(req'.id) :
              /\ Apart(RequestWindow(req'), Window(sched[x]))
              /\ ~SameInstant(RequestWindow(req'), Window(sched[x])))
          => ~req'.overlaps ) ]_vars

\* C11 (as claimed): in every reachable state of the schedule store the windows
\* of the active schedules are pairwise non-intersecting.
C11_Claim ==
  \A x \in DOMAIN sched, y \in DOMAIN sched :
    (x # y /\ sched[x].isActive /\ sched[y].isActive)
      => ~Intersect(Window(sched[x]), Window(sched[y]))

\* the period of a repeat pattern without explicit days: 1 day, 7 days
Period(repeatPattern) == IF repeatPattern = "weekly" THEN 7 * Day ELSE Day

\* C12: for daily (weekly) nextRun is startTime + k periods of 1 day (7 days)
\* for the smallest k >= 0 that puts it strictly after now; the loop followed
\* turn by turn returns what calculateNextRunTime returns.
C12_NextRunDailyWeekly ==
  (calc.at = "returned" /\ calc.repeatPattern \in {"daily", "weekly"}) =>
    LET p == Period(calc.repeatPattern)
        k == (calc.nextRun - calc.startTime) \div p
    IN  /\ calc.nextRun = calc.startTime + k * p
        /\ k >= 0
        /\ calc.nextRun > now
        /\ (k > 0 => calc.startTime + (k - 1) * p <= now)
        /\ calc.nextRun = calculateNextRunTime(calc.startTime, calc.repeatPattern, now)

\* C12 witness: start 2024-01-01T00:00, daily, now 2024-01-03T12:00 has returned
\* 2024-01-04T00:00
C12_Witness ==
  /\ calc.at = "returned" /\ calc.repeatPattern = "daily"
  /\ calc.startTime = 0 /\ now = 2 * Day + 48
  /\ calc.nextRun = 3 * Day

\* the month after the month of instant t, and its year
TargetMonth(t) == (getMonth(t) + 1) % 12
TargetYear(t) == getFullYear(t) + ((getMonth(t) + 1) \div 12)

\* the day of instant t does not exist in the month after
Overflows(t) == getDate(t) > DaysInMonth(TargetYear(t), TargetMonth(t))

\* C13: whenever a turn of the monthly loop adds a month to a date whose day
\* does not exist in the target month, nextRun becomes the last day of the
\* target month, at the same time of day, never a day of the month after.
C13_MonthlyClamps ==
  [][ ( /\ calc.at = "loop" /\ calc.repeatPattern = "monthly"
        /\ calc'.nextRun # calc.nextRun
        /\ Overflows(calc.nextRun) )
      => ( /\ getFullYear(calc'.nextRun) = TargetYear(calc.nextRun)
           /\ getMonth(calc'.nextRun) = TargetMonth(calc.nextRun)
           /\ getDate(calc'.nextRun) =
                DaysInMonth(TargetYear(calc.nextRun), TargetMonth(calc.nextRun))
           /\ TimeWithinDay(calc'.nextRun) = TimeWithinDay(calc.nextRun) ) ]_vars

\* C13 witness: start 2024-01-31T12:00, monthly, read on 2024-02-01, has
\* returned 2024-02-29T12:00
C13_Witness ==
  /\ calc.at = "returned" /\ calc.repeatPattern = "monthly"
  /\ calc.startTime = 30 * Day + 48 /\ DayOf(now) = 31
  /\ calc.nextRun = 59 * Day + 48

\* C14: getActiveScans never returns two elements with the same uuid, also
\* when a scan is in progress both in memory and in durable storage.
C14_NoDuplicateUuid ==
  \A e1 \in ActiveScansIn(cache, db, dbConnected), e2 \in ActiveScansIn(cache, db, dbConnected) :
    e1.scan.uuid = e2.scan.uuid => e1 = e2

\* C14 witness: a scan is in progress in memory and in durable storage, and
\* getActiveScans returns it
C14_Witness ==
  /\ dbConnected
  /\ \E u \in DOMAIN cache \cap DOMAIN db :
       /\ cache[u].status \in IN_PROGRESS_STATUSES
       /\ db[u].status \in IN_PROGRESS_STATUSES
       /\ cache[u] # db[u]
       /\ \E e \in ActiveScansIn(cache, db, dbConnected) : e.scan.uuid = u

\* C15: the step in which createScan runs leaves a record that getScan returns
\* at once: the record created, status pending, progress 0, whether or not it
\* reached durable storage.
C15_CreatedIsVisible ==
  [][ \A u \in Uuids :
        (pc[u] = "none" /\ pc'[u] = "created") =>
          /\ GetScanIn(cache', db', dbConnected', u) = {NewScan(u, now)}
          /\ \A r \in GetScanIn(cache', db', dbConnected', u) :
               r.status = "pending" /\ r.progress = 0 ]_vars

\* C15 witness: a scan has just been created, durable storage holds no row of
\* it (disconnected, or the create failed), and getScan returns it as pending
C15_Witness ==
  \E u \in Uuids :
    /\ pc[u] = "created"
    /\ u \notin DOMAIN db
    /\ \E r \in getScan(u) : r.status = "pending" /\ r.progress = 0

\* C16 (as claimed): while a record stays in status active-scanning its
\* progress never decreases from one step to the next, in memory and in durable
\* storage, whatever the scanner reports.
C16_Claim ==
  [][ /\ \A u \in DOMAIN cache \cap DOMAIN cache' :
           (cache[u].status = "active-scanning" /\ cache'[u].status = "active-scanning")
             => cache'[u].progress >= cache[u].progress
      /\ \A u \in DOMAIN db \cap DOMAIN db' :
           (db[u].status = "active-scanning" /\ db'[u].status = "active-scanning")
             => db'[u].progress >= db[u].progress ]_vars

\* the edges of the status diagram: pending -> pinging-target ->
\* spider-scanning -> active-scanning -> completed, and any non-terminal
\* status -> failed
StatusEdge(from, to) ==
  \/ <<from, to>> \in {<<"pending", "pinging-target">>, <<"pinging-target", "spider-scanning">>,
                       <<"spider-scanning", "active-scanning">>, <<"active-scanning", "completed">>}
  \/ (from \in IN_PROGRESS_STATUSES /\ to = "failed")

\* C19 (as claimed): every change of the status of a scan record, in memory or
\* in durable storage, follows an edge of the status diagram.
C19_Claim ==
  [][ /\ \A u \in DOMAIN cache \cap DOMAIN cache' :
           cache'[u].status # cache[u].status
             => StatusEdge(cache[u].status, cache'[u].status)
      /\ \A u \in DOMAIN db \cap DOMAIN db' :
           db'[u].status # db[u].status
             => StatusEdge(db[u].status, db'[u].status) ]_vars

\* the elements of the list of getActiveScans that are scan u
ListedAs(c, d, connected, u) ==
  {e.scan : e \in {x \in ActiveScansIn(c, d, connected) : x.scan.uuid = u}}

\* C20 (as claimed): after a step in which processFullScan records a
\* non-terminal status or a poll, the lastCheckedAt that getScan and
\* getActiveScans return for the scan is the instant of that step; a step that
\* records completed or failed leaves the lastCheckedAt they return unchanged.
C20_Claim ==
  [][ \A u \in Uuids :
        /\ ( /\ pc[u] \in {"created", "pinging", "startProbe", "probing"}
             /\ pc'[u] \in {"pinging", "crawling", "probing"} )
           => \A r \in GetScanIn(cache', db', dbConnected', u)
                         \cup ListedAs(cache', db', dbConnected', u) :
                r.lastCheckedAt = now
        /\ ( /\ pc[u] \in {"pinging", "treeWait", "probing"}
             /\ pc'[u] \in {"done", "getAlerts"} )
           => \A r \in GetScanIn(cache, db, dbConnected, u),
                 r2 \in GetScanIn(cache', db', dbConnected', u) :
                r2.lastCheckedAt = r.lastCheckedAt ]_vars

\* C17: at most one call of processDueSchedules is under way at any time. A
\* sweep begins only in a step that finds the lock free; a call of
\* checkAndRunDueSchedules that finds it held returns and leaves the sweep, the
\* schedules and the scans as they are; when the sweep returns the lock is
\* free and no sweep is under way: none was queued.
C17_SingleSweep ==
  [][ /\ sweeps' <= 1
      /\ (sweeps' > sweeps => ~isProcessing)
      /\ (isProcessing /\ res' = "skipped" /\ res # "skipped")
           => UNCHANGED <<spc, due, turn, sched, sweeps, isProcessing, cache, db, pc>>
      /\ (sweeps' < sweeps) => (sweeps' = 0 /\ spc' = "idle" /\ ~isProcessing') ]_vars

\* C17 witness: a sweep is in the middle of a turn of its loop and a call of
\* checkAndRunDueSchedules has just returned without sweeping
C17_Witness ==
  /\ isProcessing /\ sweeps = 1
  /\ spc = "starting"
  /\ res = "skipped"

\* C18: in every turn of the loop of a sweep the write of lastRunAt = now has
\* succeeded before the scan of the schedule is created: a scan is created
\* only by a turn whose write resolved, and a turn whose write failed creates
\* none.
C18_StampBeforeScan ==
  [][ /\ (spc = "loop" /\ spc' = "stamping" /\ turn'.stamped)
           => (turn'.id \in DOMAIN sched' /\ sched'[turn'.id].lastRunAt = now)
      /\ \A u \in SweepUuids :
           (pc[u] = "none" /\ pc'[u] = "created")
             => (spc = "stamping" /\ turn.stamped /\ turn'.uuid = u)
      /\ (spc = "stamping" /\ spc' # "stamping" /\ ~turn.stamped)
           => (used' = used /\ cache' = cache /\ db' = db /\ pc' = pc) ]_vars

\* C18 witness: the sweep has written lastRunAt = now for a due schedule and
\* has then created its scan
C18_Witness ==
  /\ spc = "starting" /\ turn.stamped
  /\ pc[turn.uuid] = "created" /\ turn.uuid \in DOMAIN cache
  /\ turn.id \in DOMAIN sched /\ sched[turn.id].lastRunAt = now

\* what every tier holds of scan u
RecordsOf(u) ==
  (IF u \in DOMAIN cache THEN {cache[u]} ELSE {})
    \cup (IF dbConnected /\ u \in DOMAIN db THEN {db[u]} ELSE {})

\* C21 (as claimed): the monitor marks a scan failed only when the most recent
\* check recorded for it (or its start, when none is recorded) is older than
\* the threshold: no scan is marked while a record of it carries a check
\* within the threshold.
C21_Claim ==
  [][ (mpc = "loop" /\ restarts' = restarts) =>
        \A u \in mstale' \ mstale :
          \A r \in RecordsOf(u) : IsStale(LastChecked(r), now) ]_vars

\* the updates processFullScan passes to updateScan in the step that takes it
\* from one position to the next
UpdatesAt(from, to) ==
  CASE from = "created" /\ to = "pinging" -> {PingUpdate}
    [] from = "pinging" /\ to = "done" -> {UnreachableUpdate}
    [] from = "pinging" /\ to = "crawling" -> {SpiderUpdate}
    [] from = "treeWait" /\ to = "done" -> {NotInTreeUpdate}
    [] from = "startProbe" /\ to = "probing" -> {ActiveUpdate}
    [] from = "probing" /\ to = "probing" ->
         {PollUpdate(s) : s \in {x \in ProbeStatusValues : x < 100}}
    [] from = "probing" /\ to = "getAlerts" ->
         {PollUpdate(s) : s \in {x \in ProbeStatusValues : x >= 100}}
    [] OTHER -> {}

\* the step has changed the position of scan u or what is recorded of it
Touched(u) ==
  \/ pc'[u] # pc[u]
  \/ u \notin DOMAIN cache' \/ cache'[u] # cache[u]
  \/ (u \in DOMAIN db /\ u \in DOMAIN db' /\ db'[u] # db[u])

\* C22: a call of updateScan for a record held in memory leaves the record
\* merged with the partial in memory, whether or not the mirrored durable
\* write took effect, and the caller goes on: no rejection comes of it. This
\* holds for the calls of processFullScan and for those of the monitor.
C22_MemoryUpdateKept ==
  [][ /\ \A u \in Uuids \cap DOMAIN cache :
           (UpdatesAt(pc[u], pc'[u]) # {} /\ mstale' = mstale /\ Touched(u)) =>
             /\ u \in DOMAIN cache'
             /\ \E upd \in UpdatesAt(pc[u], pc'[u]) : cache'[u] = Merge(cache[u], upd)
             /\ u \notin unhandled'
      /\ (mpc = "loop" /\ restarts' = restarts) =>
           \A u \in (mstale' \ mstale) \cap DOMAIN cache :
             /\ u \in DOMAIN cache'
             /\ cache'[u] = Merge(cache[u], StaleUpdate(now)) ]_vars

\* C22 witness: durable storage is connected, the write that mirrors the start
\* of the crawl has failed, and memory holds the update while the row does not
C22_Witness ==
  \E u \in Uuids \cap DOMAIN cache \cap DOMAIN db :
    /\ dbConnected /\ pc[u] = "crawling"
    /\ cache[u].status = "spider-scanning" /\ cache[u].spiderScanId # NoJob
    /\ db[u].status # "spider-scanning" /\ db[u].spiderScanId = NoJob

\* the scanner has not let scan u through: a call threw, the target was
\* unreachable, or its URL was not in the scan tree
ScannerGaveUp(u) ==
  \/ pc[u] = "threw"
  \/ u \in DOMAIN cache /\ cache[u].error \in {ErrUnreachable, ErrNotInTree}

\* C23: while durable storage takes nothing (disconnected, or every write
\* failing), every scan that was created reaches status completed with
\* progress 100 in memory, unless the scanner threw, found the target
\* unreachable or did not find its URL: no step of the orchestration waits on
\* durable storage or is ended by it.
C23_CompletesWithoutStorage ==
  \A u \in Uuids :
    (pc[u] = "created") ~>
      ( \/ (u \in DOMAIN cache /\ cache[u].status = "completed" /\ cache[u].progress = 100)
        \/ ScannerGaveUp(u) )

\* C23 witness: durable storage holds nothing and a scan is completed with
\* progress 100 in memory, the monitor having marked it failed on the way
C23_Witness ==
  \E u \in Uuids \cap DOMAIN cache :
    /\ db = << >>
    /\ cache[u].status = "completed" /\ cache[u].progress = 100
    /\ cache[u].error = ErrInactive

\* C24: a call of getAlerts that has ended returned the findings of durable
\* storage, the scanner not having been called, whenever durable storage was
\* connected and its query yielded a non-empty set for scanId; otherwise, with
\* an activeScanId, it called the scanner and returned the findings of the
\* scanner, or threw when the scanner call failed; with neither it threw.
C24_GetAlerts ==
  [][ (ga.at \notin {"returned", "threw"} /\ ga'.at \in {"returned", "threw"}) =>
        /\ (dbConnected <=> ga'.queried # "no")
        /\ IF dbConnected /\ ga'.queried = "answered" /\ alerts[ga.scanId] # {}
           THEN /\ ga'.at = "returned" /\ ga'.result = alerts[ga.scanId]
                /\ ~ga'.calledScanner
           ELSE IF ga.activeScanId # NoJob
           THEN /\ ga'.calledScanner
                /\ IF ga'.zapThrew THEN ga'.at = "threw"
                   ELSE ga'.at = "returned" /\ ga'.result = ga'.zapAlerts
           ELSE ga'.at = "threw" /\ ~ga'.calledScanner ]_vars

\* C24 witness: durable storage holds findings for the scan and they were
\* returned without a call of the scanner, the scan having a probe job id
C24_Witness ==
  /\ ga.at = "returned" /\ ~ga.calledScanner /\ ga.activeScanId # NoJob
  /\ ga.result = alerts[ga.scanId] /\ ga.result = Findings

\* the due rule: an active schedule is due when nextRunAt <= now, or when it
\* has never run and startTime <= now; a one-shot schedule that has run is not
DueRule(row, n) ==
  /\ row.isActive
  /\ ~(row.repeatPattern = "none" /\ row.lastRunAt # NullTime)
  /\ \/ (row.nextRunAt # NullTime /\ row.nextRunAt <= n)
     \/ (row.lastRunAt = NullTime /\ row.startTime <= n)

\* the schedules a sweep has still to process
DueIds(d) == {x.id : x \in d}

\* C25: the sweep loads exactly the schedules the due rule names, all of them
\* active; from then on to its end nothing is added to what it has to
\* process, every schedule it stamps and every schedule it starts a scan for
\* is one of those, so that a schedule inactive at the load is never triggered
\* by this sweep, also when it is activated while the sweep runs.
C25_SweepSelectsDue ==
  [][ /\ (spc = "idle" /\ spc' = "loop") =>
           /\ DueIds(due') = {x \in DOMAIN sched : DueRule(sched[x], now)}
           /\ \A x \in DueIds(due') : sched[x].isActive
      /\ (spc # "idle" /\ spc' # "idle") => DueIds(due') \subseteq DueIds(due)
      /\ (spc = "loop" /\ spc' = "stamping") =>
           (turn'.id \in DueIds(due) /\ turn'.id \notin DueIds(due'))
      /\ \A x \in DOMAIN sched \cap DOMAIN sched' :
           (spc # "idle" /\ sched'[x].lastRunAt # sched[x].lastRunAt /\ sched'[x].lastRunAt = now
              /\ req' = req)
             => x \in DueIds(due)
      /\ \A u \in SweepUuids :
           (pc[u] = "none" /\ pc'[u] = "created") => turn.id = turn'.id /\ turn.stamped ]_vars

\* C25 witness: a sweep runs that has left out a schedule because it was
\* inactive at the load; the schedule has been activated since and is due by
\* the rule, and the sweep has stamped another one
C25_Witness ==
  /\ spc = "stamping" /\ turn.stamped
  /\ \E x \in DOMAIN sched :
       /\ x # turn.id /\ x \notin DueIds(due)
       /\ DueRule(sched[x], now)

\* C26: the loop of a sweep gives every due schedule its turn whatever became
\* of the turns before: a turn takes its own schedule off the list and no
\* other; a turn whose write of lastRunAt and nextRunAt failed, a scan that
\* did not reach durable storage and a link that failed leave the other due
\* schedules on the list and the loop running; a turn whose write resolved
\* starts its scan; the sweep returns only when the list is empty.
C26_FailuresIsolated ==
  [][ /\ (spc # "idle" /\ spc' = "idle") => due = {}
      /\ (spc = "loop" /\ spc' = "stamping") =>
           due' = {d \in due : d.id # turn'.id}
      /\ (spc = "stamping" /\ spc' # spc) =>
           /\ due' = due
           /\ IF turn.stamped
              THEN /\ spc' = "starting"
                   /\ pc'[turn'.uuid] = "created" /\ turn'.uuid \in DOMAIN cache'
              ELSE spc' = "loop"
      /\ (spc = "starting" /\ spc' # spc) =>
           /\ due' = due /\ spc' = "loop"
           /\ pc'[turn.uuid] = "pinging"
           /\ cache'[turn.uuid].scheduleId = turn.id ]_vars

\* C26 witness: in one sweep the write for one due schedule failed (it is off
\* the list and still due), and another due schedule has been stamped and has
\* its scan started
C26_Witness ==
  /\ spc = "starting" /\ turn.stamped /\ pc[turn.uuid] = "created"
  /\ turn.id \in DOMAIN sched /\ sched[turn.id].lastRunAt = now
  /\ \E x \in DOMAIN sched :
       /\ x < turn.id /\ x \notin DueIds(due)
       /\ IsDue(sched[x], now)

\* C27 (as claimed): every scan record whose status is completed, in memory or
\* in durable storage, has progress 100 and completedAt set.
C27_Claim ==
  \A r \in AllRecords : r.status = "completed" => (r.progress = 100 /\ r.completedAt # NullTime)

\* C28 (as claimed): getActiveScans returns no scan whose record in memory is
\* completed or failed, whatever status the durable row of the uuid carries.
C28_Claim ==
  \A e \in ActiveScansIn(cache, db, dbConnected) :
    ~(e.scan.uuid \in DOMAIN cache /\ cache[e.scan.uuid].status \in COMPLETED_STATUSES)

\* C29 (as claimed): the progress of every scan record, in memory and in
\* durable storage, is within 0..100 whatever the scanner reports as the
\* status of the probe job.
C29_Claim ==
  \A r \in AllRecords : r.progress \in 0..100

\* no record of scan u names a crawl job or a probe job
NoJobStarted(c, d, u) ==
  /\ u \in DOMAIN c => (c[u].spiderScanId = NoJob /\ c[u].activeScanId = NoJob)
  /\ u \in DOMAIN d => (d[u].spiderScanId = NoJob /\ d[u].activeScanId = NoJob)

\* C30: the step in which the reachability probe reports the target
\* unreachable takes the record from pinging-target to failed with the
\* unreachable-target error, the durable row as well when its write succeeds,
\* and ends the orchestration; from then on no step of the scan follows and no
\* record of it ever names a crawl job or a probe job.
C30_UnreachableFails ==
  [][ \A u \in Uuids :
        /\ (pc[u] = "pinging" /\ pc'[u] = "done") =>
             /\ u \in DOMAIN cache /\ u \in DOMAIN cache'
             /\ cache[u].status = "pinging-target"
             /\ cache'[u].status = "failed" /\ cache'[u].error = ErrUnreachable
             /\ (u \in DOMAIN db /\ db'[u] # db[u]) =>
                  (db'[u].status = "failed" /\ db'[u].error = ErrUnreachable)
             /\ NoJobStarted(cache', db', u)
        /\ (pc[u] = "done" /\ NoJobStarted(cache, db, u)) =>
             /\ pc'[u] \in {"done", "dead"}
             /\ NoJobStarted(cache', db', u) ]_vars

\* C30 witness: the target was unreachable; the scan is failed with the
\* unreachable-target error in memory and in durable storage, no job started
C30_Witness ==
  \E u \in Uuids \cap DOMAIN cache \cap DOMAIN db :
    /\ pc[u] = "done"
    /\ cache[u].status = "failed" /\ cache[u].error = ErrUnreachable
    /\ db[u].status = "failed" /\ db[u].error = ErrUnreachable
    /\ NoJobStarted(cache, db, u)

\* no record of scan u names a probe job
NoProbeJob(c, d, u) ==
  /\ u \in DOMAIN c => c[u].activeScanId = NoJob
  /\ u \in DOMAIN d => d[u].activeScanId = NoJob

\* C31: startActiveScan is called for a scan only in a step of the existence
\* check that found the URL in the tree, after the crawl job reported a status
\* of at least 100, and a probe job is recorded only when that call answers.
\* When the existence check gives up without the URL found, the scan becomes
\* failed with the not-in-tree error (the durable row as well when its write
\* succeeds), the orchestration ends and no record of the scan ever names a
\* probe job.
C31_ProbeAfterCrawl ==
  [][ \A u \in Uuids :
        /\ (pc[u] = "crawling" /\ pc'[u] = "treeWait") => seen'[u].status >= 100
        /\ (pc'[u] = "startProbe" /\ pc[u] # "startProbe") =>
             /\ pc[u] = "treeWait"
             /\ seen'[u].status >= 100 /\ seen'[u].found
        /\ (NoProbeJob(cache, db, u) /\ ~NoProbeJob(cache', db', u)) =>
             /\ pc[u] = "startProbe" /\ pc'[u] = "probing"
             /\ seen[u].status >= 100 /\ seen[u].found
        /\ (pc[u] = "treeWait" /\ pc'[u] = "done") =>
             /\ ~seen'[u].found
             /\ u \in DOMAIN cache'
             /\ cache'[u].status = "failed" /\ cache'[u].error = ErrNotInTree
             /\ (u \in DOMAIN db /\ db'[u] # db[u]) =>
                  (db'[u].status = "failed" /\ db'[u].error = ErrNotInTree)
             /\ NoProbeJob(cache', db', u)
        /\ (pc[u] = "done" /\ NoProbeJob(cache, db, u)) =>
             /\ pc'[u] \in {"done", "dead"}
             /\ NoProbeJob(cache', db', u) ]_vars

\* C31 witness: a probe job runs for a scan whose crawl reported 100 and whose
\* URL was found in the tree
C31_Witness ==
  \E u \in Uuids \cap DOMAIN cache :
    /\ pc[u] = "probing"
    /\ cache[u].activeScanId # NoJob
    /\ seen[u].status >= 100 /\ seen[u].found

ReturnedWithDays(repeatPattern) ==
  /\ calc.at = "returned" /\ calc.repeatPattern = repeatPattern
  /\ "repeatDays" \in DOMAIN calc /\ Len(calc.repeatDays) > 0

\* C33: weekly with explicit days returns the start moved by 1 to 7 whole
\* days to the first day after the start date whose weekday is in the list,
\* the time of day kept, whatever the order of the list.
C33_EarliestWeekday ==
  ReturnedWithDays("weekly") =>
    LET added == DayOf(calc.nextRun) - DayOf(calc.startTime)
    IN  /\ added \in 1..7
        /\ TimeWithinDay(calc.nextRun) = TimeWithinDay(calc.startTime)
        /\ getDay(calc.nextRun) \in Range(calc.repeatDays)
        /\ \A k \in 1..(added - 1) :
             (getDay(calc.startTime) + k) % 7 \notin Range(calc.repeatDays)

\* C33 witness: a call with two weekdays that both precede the weekday of the
\* start, the later one given first, has returned in the week after
C33_Witness ==
  /\ ReturnedWithDays("weekly")
  /\ Len(calc.repeatDays) = 2 /\ calc.repeatDays[1] > calc.repeatDays[2]
  /\ calc.repeatDays[1] < getDay(calc.startTime)
  /\ getDay(calc.nextRun) = calc.repeatDays[2]

\* C34 (as claimed): monthly with explicit days returns the smallest listed
\* day after the day of the start, in the month of the start, when there is
\* one, and otherwise the smallest listed day of the month that follows.
C34_Claim ==
  ReturnedWithDays("monthly") =>
    LET currentDay == getDate(calc.startTime)
        later == {d \in Range(calc.repeatDays) : d > currentDay}
        months(t) == getFullYear(t) * 12 + getMonth(t)
    IN  IF later # {}
        THEN /\ months(calc.nextRun) = months(calc.startTime)
             /\ getDate(calc.nextRun) = SetMin(later)
        ELSE /\ months(calc.nextRun) = months(calc.startTime) + 1
             /\ getDate(calc.nextRun) = SetMin(Range(calc.repeatDays))

\* C35 (as claimed): monthly without explicit days returns an instant whose
\* day of the month is the day of the month of startTime, or the last day of
\* the month it falls in when that month is shorter.
C35_Claim ==
  (calc.at = "returned" /\ calc.repeatPattern = "monthly" /\ "repeatDays" \notin DOMAIN calc) =>
    getDate(calc.nextRun) =
      Min(getDate(calc.startTime),
          DaysInMonth(getFullYear(calc.nextRun), getMonth(calc.nextRun)))

\* the scans started for schedule id at instant t
ScansOf(c, id, t) == {u \in DOMAIN c : c[u].scheduleId = id /\ c[u].startedAt = t}

\* C36: the write by which a sweep stamps a due recurring schedule leaves it
\* with lastRunAt at the instant of the sweep and nextRunAt after it, hence not
\* due at that instant; a sweep that begins at the instant a recurring schedule
\* was stamped does not list it; and at no instant has a schedule more than
\* one scan started for it, however many of its periods went by unswept.
C36_NextRunInFuture ==
  [][ /\ ( /\ spc = "loop" /\ spc' = "stamping" /\ turn'.stamped
           /\ sched[turn'.id].repeatPattern \in RecurringPatterns ) =>
             /\ sched'[turn'.id].lastRunAt = now
             /\ sched'[turn'.id].nextRunAt > now
             /\ ~IsDue(sched'[turn'.id], now)
      /\ (spc = "idle" /\ spc' = "loop") =>
           \A id \in DOMAIN sched :
             (sched[id].repeatPattern \in RecurringPatterns /\ sched[id].lastRunAt = now)
               => id \notin DueIds(due')
      /\ \A id \in DOMAIN sched' : Cardinality(ScansOf(cache', id, now')) <= 1 ]_vars

\* C36 witness: a daily schedule went unswept for three days or more; the
\* sweep stamped it, its next run is the day after, one scan was started for
\* it, and a second sweep at the same instant has come and gone
C36_Witness ==
  \E id \in DOMAIN sched :
    /\ sched[id].repeatPattern = "daily"
    /\ now >= sched[id].startTime + 3 * Day
    /\ sched[id].lastRunAt = now
    /\ sched[id].nextRunAt > now /\ sched[id].nextRunAt <= now + Day
    /\ Cardinality(ScansOf(cache, id, now)) = 1
    /\ spc = "idle" /\ res = "swept" /\ used = {NumScans + 1}
    /\ \A u \in used : pc[u] = "pinging"

\* C37 (as claimed): an updateSchedule that gives neither startTime nor
\* repeatPattern (a rename, a change of isActive) and writes after a sweep
\* stamped the schedule it had read leaves the lastRunAt and the nextRunAt of
\* the sweep in the row.
C37_Claim ==
  [][ ( /\ req.op = "update" /\ req' = NoReq /\ res' = "ok"
        /\ "startTime" \notin DOMAIN req.data /\ "repeatPattern" \notin DOMAIN req.data
        /\ req.id \in DOMAIN sched /\ req.id \in DOMAIN sched'
        /\ sched[req.id].lastRunAt # req.cur.lastRunAt ) =>
          /\ sched'[req.id].lastRunAt = sched[req.id].lastRunAt
          /\ sched'[req.id].nextRunAt = sched[req.id].nextRunAt ]_vars

\* schedules x and y of table t are active and their windows intersect, as
\* checkForOverlaps reads windows
Intersecting(t, x, y) ==
  /\ t[x].isActive /\ t[y].isActive
  /\ y \in overlappingSchedules(t, t[x].startTime, t[x].nextRunAt, x)
  /\ x \in overlappingSchedules(t, t[y].startTime, t[y].nextRunAt, y)

\* C38 (as claimed): two createSchedule calls whose windows intersect are
\* never both stored as active schedules, also when each has checked for
\* overlaps before the other has written.
C38_Claim ==
  \A x \in DOMAIN sched, y \in DOMAIN sched : x # y => ~Intersecting(sched, x, y)

\* C40: each service has at most one interval timer, isRunning is true exactly
\* when it has one (the one checkInterval names), and a call of start() while
\* the service runs leaves the timer as it is and makes no immediate check: no
\* sweep is begun by it.
C40_SingleTimer ==
  [][ \A s \in Services :
        /\ Cardinality(svc'[s].live) <= 1
        /\ svc'[s].isRunning <=> svc'[s].live # {}
        /\ svc'[s].live = IF svc'[s].checkInterval = NoTimer THEN {} ELSE {svc'[s].checkInterval}
        /\ (svc'[s].starts > svc[s].starts /\ svc[s].isRunning) =>
             /\ svc'[s].live = svc[s].live /\ svc'[s].made = svc[s].made
             /\ svc'[s].immediate = svc[s].immediate
             /\ UNCHANGED <<mpc, mlist, spc, due, isProcessing, sweeps, res>> ]_vars

\* C40 witness: both services were started, stopped and started again, and
\* start() was called once more while they ran; each has its second timer
C40_Witness ==
  \A s \in Services :
    /\ svc[s].starts = 3 /\ svc[s].immediate = 2
    /\ svc[s].isRunning /\ svc[s].live = {2}

\* the memory record or the durable row of scan v is not after the step what
\* it was before
RecordChanged(v) ==
  \/ (v \in DOMAIN cache) # (v \in DOMAIN cache')
  \/ (v \in DOMAIN cache /\ v \in DOMAIN cache' /\ cache'[v] # cache[v])
  \/ (v \in DOMAIN db) # (v \in DOMAIN db')
  \/ (v \in DOMAIN db /\ v \in DOMAIN db' /\ db'[v] # db[v])

\* C39: a step of the orchestration of one scan (createScan, updateScan,
\* completeScan and the eviction after it) and a write of the monitor for one
\* scan leave the memory record and the durable row of every other scan as
\* they were; no step changes the records of two scans, and the records of a
\* scan change only in a step of its own orchestration or in a write of the
\* monitor for it.
C39_ScansIndependent ==
  [][ /\ Cardinality({v \in AllUuids : RecordChanged(v)}) <= 1
      /\ \A u \in PairUuids :
           /\ (pc'[u] # pc[u] \/ u \in mstale' \ mstale) =>
                \A v \in AllUuids \ {u} : ~RecordChanged(v)
           /\ RecordChanged(u) =>
                \/ pc'[u] # pc[u]
                \/ u \in mstale' \ mstale
                \/ ( /\ pc[u] = "probing" /\ mstale' = mstale
                     /\ \A v \in AllUuids \ {u} : pc'[v] = pc[v] ) ]_vars

\* C39 witness: two scans are probed side by side; the monitor has marked the
\* older one failed for inactivity, the other is active with its own record
\* in memory and in durable storage
C39_Witness ==
  \E u \in PairUuids, v \in PairUuids :
    /\ u # v /\ pc[u] = "probing" /\ pc[v] = "probing"
    /\ {u, v} \subseteq DOMAIN cache /\ {u, v} \subseteq DOMAIN db
    /\ cache[u].status = "failed" /\ cache[u].error = ErrInactive
    /\ db[u].status = "failed"
    /\ cache[v].status = "active-scanning" /\ db[v].status = "active-scanning"
    /\ cache[v].error = NoError
====
